---- MODULE Spec2Model ----
(***************************************************************************)
(* Model of the HTS classification service: the evidence gate and the      *)
(* confidence calibration of app/api/routes/classify.py and the cache      *)
(* lifecycle of the chunk retriever of app/rag/retrieval.py.               *)
(*                                                                         *)
(* Numbers: confidences and scores are floats in the source; here they are *)
(* integers in hundredths (0.40 is 40, 0.55 is 55).  NaN is the float NaN, *)
(* for which every comparison is false.  Strings are tuples of tokens: a   *)
(* token is a word, a run of white space (SP) or an HTS code NNNN.NN.      *)
(***************************************************************************)
EXTENDS Integers, Sequences, FiniteSets, TLC

VARIABLES
    \* ---- one call of the classify module (its arguments, locals, result)
    op,         \* which function was called last
    query,      \* classify: the request's query
    mode,       \* "prod" | "mock" (OPENAI_API_MOCK=1) | "test" (_is_test())
    abstain,    \* settings.ABSTAIN_ON_NO_EVIDENCE
    minScore,   \* float(os.getenv("MIN_SCORE", "0.40"))
    retr,       \* outcome of the retrieval call: "skipped" | "raised" | "ok"
    hits,       \* the hits classify works with
    llm,        \* outcome of run_llm_classify: [status, codes]
    outCodes,   \* classify: out_codes before the calibration
    preCal,     \* classify: sorted_codes before the confidence bump
    codesIn,    \* the list handed to _finalize_response
    fbCalled,   \* whether _fallback_from_hits was called
    fbOut,      \* the result of _fallback_from_hits
    resp,       \* the ClassifyResponse, or the exception raised
    \* ---- the chunk retriever of app/rag/retrieval.py
    corpus,             \* the chunk_ids of the rows of the chunks table
    CHUNK_ROWS,         \* _CHUNK_ROWS
    TOKENIZED_CHUNKS,   \* _TOKENIZED_CHUNKS
    BM25_MODEL,         \* _BM25_MODEL
    EMB_MATRIX,         \* _EMB_MATRIX
    pc,         \* per worker: the statement it executes next
    call,       \* per worker: the function the caller invoked
    embs,       \* per worker, build_faiss: the local list embs
    qBm25,      \* per worker, retrieve_with_fusion: the model read at 531-532
    qEmb,       \* per worker, retrieve_with_fusion: the matrix read at 537
    qRows,      \* per worker, retrieve_with_fusion: the rows read at 542
    qRaw,       \* per worker, retrieve_with_fusion: the rows read at 552
    result,     \* per worker, retrieve_with_fusion: what the call returns
    \* ---- one call of a scoring or ranking function of app/rag/retrieval.py
    rop,        \* which function was called last
    rin,        \* its arguments and what its collaborators delivered
    rres,       \* its result, or the exception raised
    \* ---- one run of _deterministic_chunks of app/ingest/load_htsus.py
    cop,        \* "idle" | "running" | "done"
    cargs,      \* [doc, text, window, overlap]
    ci,         \* the local i
    csection,   \* the local section
    cout,       \* the tuples yielded so far, each with its _chunk_id
    cprev,      \* the arguments and the output of the run before, if kept
    \* ---- load_htsus of app/ingest/load_htsus.py and its files
    srcFiles,   \* the records under data/htsus, in reading order: [doc, text]
    docFiles,   \* the doc_ids that have a .doc.json file
    chunkFiles, \* per doc_id: the records of its .chunks.jsonl file, in order
    srcChanged, \* whether the records changed since the last run
    lastRun,    \* the last run: counts returned, and the files before it
    \* ---- upsert_hts / upsert_ruling and the tables they write
    srcDocs,    \* the rows of source_documents, in id order
    dbChunks,   \* the rows of chunks
    dbres       \* the last upsert call and its outcome

apiVars == <<op, query, mode, abstain, minScore, retr, hits, llm, outCodes,
             preCal, codesIn, fbCalled, fbOut, resp>>

cacheVars == <<corpus, CHUNK_ROWS, TOKENIZED_CHUNKS, BM25_MODEL, EMB_MATRIX,
               pc, call, embs, qBm25, qEmb, qRows, qRaw, result>>

rankVars == <<rop, rin, rres>>

chunkVars == <<cop, cargs, ci, csection, cout, cprev>>

sinkVars == <<srcFiles, docFiles, chunkFiles, srcChanged, lastRun>>

dbVars == <<srcDocs, dbChunks, dbres>>

vars == <<apiVars, cacheVars, rankVars, chunkVars, sinkVars, dbVars>>

\* ------------------------------------------------------------------ bounds
MaxCodes == 3       \* candidates in one list
MaxHits == 2        \* hits of one classify call
MaxFbHits == 3      \* hits of one direct _fallback_from_hits call
MaxChunks == 2      \* rows of the chunks table
MaxRows == 3        \* entries of one list of scores
MaxTable == 3       \* rows of the table one retrieval call ranks
MaxPairs == 2       \* ruling chunks one hybrid search ranks
MaxText == 6        \* characters of a text to be chunked
MaxWindow == 3      \* window and overlap of the chunker
MaxFiles == 2       \* source records one load_htsus run reads
MaxYield == 8       \* chunks a consumer takes from one generator
MaxDocs == 3        \* rows of the source_documents table
MaxItems == 2       \* items of one HTS file
MaxParas == 1       \* paragraphs of one normalized ruling
MaxTokens == 2      \* max_tokens of chunk_text
MaxOverlap == 1     \* overlap of chunk_text
MaxWords == 3       \* words of a text given to chunk_text
SnippetLen == 6     \* characters of a snippet (300 in the code)

\* ----------------------------------------------------------- value domains
SP == " "
None == <<"<None>">>
NaN == 9999
NoneConf == 8888
DISCLAIMER == "Not legal advice. Verify with a licensed customs broker or counsel."

HTS6 == {"8504.40", "8471.30", "9403.20"}
CodeA == <<"8504.40">>
CodeB == <<"8471.30">>
CodeC == <<"9403.20">>
StubId == <<"stub">>

RECURSIVE BSeq(_, _)
BSeq(S, n) == IF n = 0 THEN {<<>>}
              ELSE LET T == BSeq(S, n - 1)
                   IN  T \cup {Append(t, x) : t \in {u \in T : Len(u) = n - 1}, x \in S}

\* ------------------------------------------------------------ Python idiom
Truthy(s) == s # None /\ s # <<>>

OrElse(a, b) == IF Truthy(a) THEN a ELSE b

RECURSIVE LStrip(_)
LStrip(s) == IF s # <<>> /\ Head(s) = SP THEN LStrip(Tail(s)) ELSE s

RECURSIVE RStrip(_)
RStrip(s) == IF s # <<>> /\ s[Len(s)] = SP THEN RStrip(SubSeq(s, 1, Len(s) - 1)) ELSE s

Strip(s) == RStrip(LStrip(s))

FGe(a, b) == a # NaN /\ b # NaN /\ a >= b
FGt(a, b) == a # NaN /\ b # NaN /\ a > b
FLt(a, b) == a # NaN /\ b # NaN /\ a < b

\* max(a, b) of Python: b only when b > a
FMax(a, b) == IF FGt(b, a) THEN b ELSE a

\* float(x or 0.0)
FloatOrZero(x) == IF x = NoneConf \/ x = 0 THEN 0 ELSE x

\* ------------------------------------------------- evidence and HTS codes
\* _mk_evidence: no item for a missing or blank id, else the stripped id.
\* The result is the list of items made: empty or one item.
MkEvidence(source, id) ==
    IF ~Truthy(id) THEN <<>>
    ELSE LET sid == Strip(id)
         IN  IF sid = <<>> THEN <<>> ELSE <<[source |-> source, id |-> sid]>>

\* _find_hts_code on a string: the first match of \b\d{4}\.\d{2}\b.
RECURSIVE FindHtsCode(_)
FindHtsCode(s) ==
    IF s = None \/ s = <<>> THEN None
    ELSE IF Head(s) \in HTS6 THEN <<Head(s)>>
    ELSE FindHtsCode(Tail(s))

\* _extract_code_from_hit: the keys code, anchor, snippet in this order (a
\* hit has no text or expected_code key; the scan of the whole hit that
\* follows meets the same three strings and the score, which holds no code).
ExtractCodeFromHit(h) ==
    IF FindHtsCode(h.code) # None THEN FindHtsCode(h.code)
    ELSE IF FindHtsCode(h.anchor) # None THEN FindHtsCode(h.anchor)
    ELSE FindHtsCode(h.snippet)

StubEvidence == <<[source |-> "HTS", id |-> StubId]>>

FallbackConfidence == 40

\* One synthesized candidate of _fallback_from_hits (lines 177-188); a hit
\* has no id key, so h.get("anchor") or h.get("id") is the anchor or None.
FallbackCandidate(h, code) ==
    LET ev == MkEvidence("HTS", OrElse(h.anchor, None))
    IN  [code |-> code,
         confidence |-> FallbackConfidence,
         evidence |-> IF ev # <<>> THEN ev ELSE StubEvidence]

\* The loop of _fallback_from_hits over the hits from index i on.
RECURSIVE FallbackLoop(_, _, _, _, _)
FallbackLoop(hs, i, seen, out, max_codes) ==
    IF i > Len(hs) THEN out
    ELSE LET code == ExtractCodeFromHit(hs[i])
         IN  IF ~Truthy(code) \/ code \in seen
             THEN FallbackLoop(hs, i + 1, seen, out, max_codes)
             ELSE LET out2 == Append(out, FallbackCandidate(hs[i], code))
                  IN  IF Len(out2) >= max_codes THEN out2
                      ELSE FallbackLoop(hs, i + 1, seen \cup {code}, out2, max_codes)

FallbackMaxCodes == 2

TestStub == [code |-> CodeA, confidence |-> FallbackConfidence, evidence |-> StubEvidence]

\* _fallback_from_hits(hits): m is the mode of the process.
FallbackFromHits(hs, m) ==
    LET out == FallbackLoop(hs, 1, {}, <<>>, FallbackMaxCodes)
    IN  IF out = <<>> /\ m \in {"test", "mock"} THEN <<TestStub>> ELSE out

\* ------------------------------------------------------ the response gate
\* The pattern of CodeCandidate.code: NNNN.NN or NNNN.NN.NN.
ValidCode(code) ==
    \/ Len(code) = 1 /\ code[1] \in HTS6
    \/ Len(code) = 2 /\ code[1] \in HTS6 /\ code[2] = ".NN"

\* pydantic's validation of one candidate (CodeCandidate, Evidence); the
\* description, rationale and duty_rate fields are not modelled.
SchemaValid(c) ==
    /\ c.code # None /\ ValidCode(c.code)
    /\ c.confidence # NoneConf /\ FGe(c.confidence, 0) /\ FGe(100, c.confidence)
    /\ \A i \in 1..Len(c.evidence) : c.evidence[i].source \in {"HTS", "RULING"}

\* ClassifyResponse(disclaimer=DISCLAIMER, codes=codes): the response, or
\* the ValidationError pydantic raises.
ClassifyResponse(codes) ==
    IF \A i \in 1..Len(codes) : SchemaValid(codes[i])
    THEN [status |-> "ok", disclaimer |-> DISCLAIMER, codes |-> codes]
    ELSE [status |-> "ValidationError", disclaimer |-> "", codes |-> <<>>]

\* The gate without its evidence test.
HasAnyEvidence_Skipped(items) == TRUE

HasAnyEvidence(items) == \E i \in 1..Len(items) : items[i].evidence # <<>>

\* The threshold with the default written into the comparison.
PassesMinScore_Default(c, MIN_SCORE) == FGe(FloatOrZero(c.confidence), 40)

PassesMinScore(c, MIN_SCORE) == FGe(FloatOrZero(c.confidence), MIN_SCORE)

FinalizeResponse(codes, MIN_SCORE) ==
    LET filtered == SelectSeq(codes, LAMBDA c : PassesMinScore(c, MIN_SCORE))
    IN  IF filtered = <<>> \/ ~HasAnyEvidence(filtered)
        THEN ClassifyResponse(<<>>)
        ELSE ClassifyResponse(filtered)

\* ------------------------------------------- classify: the model's output
\* The evidence items of one model candidate (lines 308-313).
RECURSIVE OwnEvidence(_)
OwnEvidence(es) ==
    IF es = <<>> THEN <<>>
    ELSE MkEvidence(Head(es).source, Head(es).id) \o OwnEvidence(Tail(es))

\* The backfill of lines 314-321: the anchor of the first hit whose code
\* equals the predicted code; the first item made ends the loop.
RECURSIVE BackfillEvidence(_, _)
BackfillEvidence(pred, hs) ==
    IF hs = <<>> THEN <<>>
    ELSE LET ev == IF Head(hs).code = pred THEN MkEvidence("HTS", Head(hs).anchor)
                   ELSE <<>>
         IN  IF ev # <<>> THEN ev ELSE BackfillEvidence(pred, Tail(hs))

\* Lines 323-327: float(confidence), 0.0 when that raises, then the clamp.
ClampConfidence(raw) ==
    LET conf == IF raw = NoneConf THEN 0 ELSE raw
    IN  IF FLt(conf, 0) THEN 0 ELSE IF FGt(conf, 100) THEN 100 ELSE conf

MapCandidate(c, hs) ==
    LET own == OwnEvidence(c.evidence)
    IN  [code |-> OrElse(c.code, <<>>),
         confidence |-> ClampConfidence(c.confidence),
         evidence |-> IF own # <<>> THEN own ELSE BackfillEvidence(c.code, hs)]

MapCandidates(cs, hs) == [i \in 1..Len(cs) |-> MapCandidate(cs[i], hs)]

\* --------------------------------------------- classify: the calibration
HitCode(h) == Strip(OrElse(h.code, <<>>))

\* code2max (lines 343-350): per stripped hit code the largest score.
Code2Max(hs) ==
    LET codes == {HitCode(hs[i]) : i \in 1..Len(hs)} \ {<<>>}
    IN  [c \in codes |->
            CHOOSE s \in {FloatOrZero(hs[i].score) : i \in {j \in 1..Len(hs) : HitCode(hs[j]) = c}} :
                \A i \in 1..Len(hs) : HitCode(hs[i]) = c => s >= FloatOrZero(hs[i].score)]

CandCode(c) == Strip(OrElse(c.code, <<>>))

\* The sort key of line 359: code2max.get(code, 0.0).
Support(c, code2max) ==
    IF CandCode(c) \in DOMAIN code2max THEN code2max[CandCode(c)] ELSE 0

\* sorted(..., reverse=True) is stable: x goes behind every element whose
\* key is at least its own.
RECURSIVE InsertDesc(_, _, _)
InsertDesc(x, s, code2max) ==
    IF s = <<>> THEN <<x>>
    ELSE IF Support(Head(s), code2max) >= Support(x, code2max)
         THEN <<Head(s)>> \o InsertDesc(x, Tail(s), code2max)
         ELSE <<x>> \o s

RECURSIVE SortBySupport(_, _)
SortBySupport(s, code2max) ==
    IF s = <<>> THEN <<>>
    ELSE InsertDesc(s[Len(s)], SortBySupport(SubSeq(s, 1, Len(s) - 1), code2max), code2max)

RankFloor0 == 55
RankFloor1 == 45

\* The bump as an assignment of the floor instead of a maximum.
Bump_Assign(conf, rank_idx) ==
    IF rank_idx = 0 THEN RankFloor0
    ELSE IF rank_idx = 1 THEN RankFloor1
    ELSE conf

\* _bump; the rank is the 0-based index into sorted_codes.
Bump(conf, rank_idx) ==
    IF rank_idx = 0 THEN FMax(conf, RankFloor0)
    ELSE IF rank_idx = 1 THEN FMax(conf, RankFloor1)
    ELSE conf

Supported(c, code2max) == CandCode(c) \in DOMAIN code2max /\ code2max[CandCode(c)] > 0

\* Lines 360-363 on the sorted list.
Calibrate(sorted, code2max) ==
    [i \in 1..Len(sorted) |->
        IF Supported(sorted[i], code2max)
        THEN [sorted[i] EXCEPT !.confidence = Bump(FloatOrZero(sorted[i].confidence), i - 1)]
        ELSE sorted[i]]

\* ------------------------------------------------------ classify, whole
NoResponse == [status |-> "none", disclaimer |-> "", codes |-> <<>>]

EmptyQueryStub(MIN_SCORE) ==
    [code |-> CodeA, confidence |-> MIN_SCORE, evidence |-> StubEvidence]

\* classify(req) with the outcomes r of the retrieval call and l of
\* run_llm_classify: the locals at the return and the response (or the
\* exception that leaves the handler).
ClassifyRun(q, m, ab, ms, r, l) ==
    LET hs   == IF r.status = "ok" THEN r.hits ELSE <<>>
        base == [retr |-> r.status, hits |-> hs, llm |-> l, outCodes |-> <<>>,
                 preCal |-> <<>>, codesIn |-> <<>>, finalized |-> TRUE,
                 fbCalled |-> FALSE, fbOut |-> <<>>, resp |-> NoResponse]
    IN  IF ~Truthy(Strip(q))
        THEN IF m \in {"test", "mock"}
             THEN [base EXCEPT !.codesIn = <<EmptyQueryStub(ms)>>,
                               !.resp = FinalizeResponse(<<EmptyQueryStub(ms)>>, ms)]
             ELSE [base EXCEPT !.finalized = FALSE, !.resp = ClassifyResponse(<<>>)]
        ELSE IF hs = <<>> /\ m = "test"
        THEN LET fb == FallbackFromHits(<<>>, m)
             IN  [base EXCEPT !.fbCalled = TRUE, !.fbOut = fb, !.codesIn = fb,
                              !.resp = FinalizeResponse(fb, ms)]
        ELSE IF ab /\ hs = <<>>
        THEN [base EXCEPT !.resp = FinalizeResponse(<<>>, ms)]
        ELSE LET llm_codes == IF l.status = "ok" THEN l.codes ELSE <<>>
                 mapped    == MapCandidates(llm_codes, hs)
                 useFb     == Len(mapped) = 0
                 fb        == IF useFb THEN FallbackFromHits(hs, m) ELSE <<>>
                 out_codes == IF useFb THEN fb ELSE mapped
                 code2max  == Code2Max(hs)
                 sorted    == SortBySupport(out_codes, code2max)
                 bumped    == Calibrate(sorted, code2max)
             IN  [base EXCEPT !.outCodes = out_codes, !.preCal = sorted,
                              !.codesIn = bumped, !.fbCalled = useFb, !.fbOut = fb,
                              !.resp = FinalizeResponse(bumped, ms)]

\* -------------------------------------------------------- input domains
Modes == {"prod", "mock", "test"}
MinScores == {0, 40, 50}
ClassifyMinScores == {40, 50}
Queries == {<<>>, <<SP>>, <<"AC", SP, "adapter">>}

H1 == [code |-> CodeA, anchor |-> <<"11#0">>, snippet |-> <<"Static", SP, "converters">>, score |-> 90]
H2 == [code |-> CodeB, anchor |-> <<"12#0">>, snippet |-> <<"Laptops">>, score |-> 50]
H3 == [code |-> CodeA, anchor |-> <<"11#1">>, snippet |-> <<"Static", SP, "converters">>, score |-> 0]
H4 == [code |-> None, anchor |-> <<"13#0">>, snippet |-> <<"see", SP, "9403.20">>, score |-> 50]
H5 == [code |-> None, anchor |-> <<"HTS:", "8471.30">>, snippet |-> <<"see", SP, "9403.20">>, score |-> 90]
H6 == [code |-> CodeC, anchor |-> <<>>, snippet |-> <<"Desks">>, score |-> 50]
H7 == [code |-> None, anchor |-> <<"14#0">>, snippet |-> <<"Parts">>, score |-> 50]

HitPool == {H1, H2, H3, H4, H5, H6, H7}
ClassifyHitPool == {H1, H2, H3}

L1 == [code |-> CodeA, confidence |-> 10, evidence |-> <<>>]
L2 == [code |-> CodeB, confidence |-> 10, evidence |-> <<[source |-> "HTS", id |-> <<"HTS:", "8471.30">>]>>]
L3 == [code |-> CodeB, confidence |-> 80, evidence |-> <<>>]
L4 == [code |-> CodeA, confidence |-> NaN, evidence |-> <<[source |-> "RULING", id |-> <<"NY123">>]>>]
L5 == [code |-> <<"85044">>, confidence |-> 150, evidence |-> <<[source |-> "WEB", id |-> <<"u">>]>>]

LlmPool == {L1, L2, L3, L4, L5}

RetrievalOutcomes ==
    {[status |-> "raised", hits |-> <<>>]}
        \cup {[status |-> "ok", hits |-> hs] : hs \in BSeq(ClassifyHitPool, MaxHits)}

LlmOutcomes ==
    {[status |-> "raised", codes |-> <<>>]}
        \cup {[status |-> "ok", codes |-> cs] : cs \in BSeq(LlmPool, MaxCodes)}

NotCalledR == [status |-> "skipped", hits |-> <<>>]
NotCalledL == [status |-> "skipped", codes |-> <<>>]

Ev1 == <<[source |-> "HTS", id |-> <<"11#0">>]>>

FinalizePool ==
    {[code |-> CodeA, confidence |-> c, evidence |-> e] :
        c \in {NoneConf, NaN, 39, 40, 60}, e \in {<<>>, Ev1}}
      \cup {[code |-> <<"85044">>, confidence |-> 60, evidence |-> Ev1]}

\* ---------------------------------------------------------------- actions
InitApi ==
    /\ op = "init" /\ query = <<>> /\ mode = "prod" /\ abstain = TRUE
    /\ minScore = 40 /\ retr = "skipped" /\ hits = <<>> /\ llm = NotCalledL
    /\ outCodes = <<>> /\ preCal = <<>> /\ codesIn = <<>>
    /\ fbCalled = FALSE /\ fbOut = <<>> /\ resp = NoResponse

\* A direct call _finalize_response(codes).
Finalize ==
    /\ op = "init"
    /\ \E cs \in BSeq(FinalizePool, MaxCodes), ms \in MinScores :
        /\ op' = "finalize" /\ minScore' = ms /\ codesIn' = cs
        /\ resp' = FinalizeResponse(cs, ms)
        /\ query' = <<>> /\ mode' = "prod" /\ abstain' = TRUE /\ retr' = "skipped"
        /\ hits' = <<>> /\ llm' = NotCalledL /\ outCodes' = <<>> /\ preCal' = <<>>
        /\ fbCalled' = FALSE /\ fbOut' = <<>>
    /\ UNCHANGED <<cacheVars, rankVars, chunkVars, sinkVars, dbVars>>

\* A direct call _fallback_from_hits(hits).
Fallback ==
    /\ op = "init"
    /\ \E hs \in BSeq(HitPool, MaxFbHits), m \in Modes :
        /\ op' = "fallback" /\ mode' = m /\ hits' = hs
        /\ fbCalled' = TRUE /\ fbOut' = FallbackFromHits(hs, m)
        /\ query' = <<>> /\ abstain' = TRUE /\ minScore' = 40 /\ retr' = "skipped"
        /\ llm' = NotCalledL /\ outCodes' = <<>> /\ preCal' = <<>> /\ codesIn' = <<>>
        /\ resp' = NoResponse
    /\ UNCHANGED <<cacheVars, rankVars, chunkVars, sinkVars, dbVars>>

\* One request POST /classify.  The retrieval is called for a non-empty
\* query, run_llm_classify when the handler gets past its two early returns.
\* ABSTAIN_ON_NO_EVIDENCE is read only when there are no hits: it takes both
\* values there and its default elsewhere.
Classify ==
    /\ op = "init"
    /\ \E q \in Queries, m \in Modes, ms \in ClassifyMinScores :
        \E r \in (IF Truthy(Strip(q)) THEN RetrievalOutcomes ELSE {NotCalledR}) :
          \E ab \in (IF Truthy(Strip(q)) /\ r.hits = <<>> THEN BOOLEAN ELSE {TRUE}) :
          \E l \in (IF /\ Truthy(Strip(q))
                       /\ ~(r.hits = <<>> /\ (m = "test" \/ ab))
                    THEN LlmOutcomes ELSE {NotCalledL}) :
            \E run \in {ClassifyRun(q, m, ab, ms, r, l)} :
                /\ op' = "classify" /\ query' = q /\ mode' = m /\ abstain' = ab
                /\ minScore' = ms /\ retr' = run.retr /\ hits' = run.hits
                /\ llm' = run.llm /\ outCodes' = run.outCodes /\ preCal' = run.preCal
                /\ codesIn' = run.codesIn /\ fbCalled' = run.fbCalled
                /\ fbOut' = run.fbOut /\ resp' = run.resp
    /\ UNCHANGED <<cacheVars, rankVars, chunkVars, sinkVars, dbVars>>

\* The call has returned; the module is ready for the next one.
Return ==
    /\ op # "init"
    /\ op' = "init" /\ query' = <<>> /\ mode' = "prod" /\ abstain' = TRUE
    /\ minScore' = 40 /\ retr' = "skipped" /\ hits' = <<>> /\ llm' = NotCalledL
    /\ outCodes' = <<>> /\ preCal' = <<>> /\ codesIn' = <<>>
    /\ fbCalled' = FALSE /\ fbOut' = <<>> /\ resp' = NoResponse
    /\ UNCHANGED <<cacheVars, rankVars, chunkVars, sinkVars, dbVars>>

\* ===================================================== the chunk retriever
\* A chunk row is represented by its chunk_id; the token list and the
\* embedding of a chunk are represented by the chunk they come from.
ChunkIds == 1..MaxChunks

\* One worker serves queries (retrieve_with_fusion, with the builds it
\* starts itself), the other one runs explicit reindex calls beside it.
Queriers == {"query"}
Reindexers == {"reindex"}
Workers == Queriers \cup Reindexers

RECURSIVE SortedSeq(_)
SortedSeq(S) ==
    IF S = {} THEN <<>>
    ELSE LET m == CHOOSE x \in S : \A y \in S : x <= y
         IN  <<m>> \o SortedSeq(S \ {m})

\* _load_chunks: the rows of the table, [] when the query raises.
LoadChunks(ok) == IF ok THEN SortedSeq(corpus) ELSE <<>>

NoModel == [built |-> FALSE, docs |-> <<>>]
BM25Okapi(tokenized) == [built |-> TRUE, docs |-> tokenized]

NoMatrix == [built |-> FALSE, rows |-> <<>>]
Stack(es) == [built |-> TRUE, rows |-> es]

InitCache ==
    /\ corpus = {}
    /\ CHUNK_ROWS = <<>> /\ TOKENIZED_CHUNKS = <<>>
    /\ BM25_MODEL = NoModel /\ EMB_MATRIX = NoMatrix
    /\ pc = [p \in Workers |-> "idle"]
    /\ call = [p \in Workers |-> "none"]
    /\ embs = [p \in Workers |-> <<>>]
    /\ qBm25 = [p \in Workers |-> NoModel]
    /\ qEmb = [p \in Workers |-> NoMatrix]
    /\ qRows = [p \in Workers |-> <<>>]
    /\ qRaw = [p \in Workers |-> <<>>]
    /\ result = [p \in Workers |-> "none"]

\* An ingestion adds a row to the chunks table; the chunk_ids in the table
\* are 1..n.
IngestChunk(k) ==
    /\ k = Cardinality(corpus) + 1
    /\ corpus' = corpus \cup {k}
    /\ UNCHANGED <<CHUNK_ROWS, TOKENIZED_CHUNKS, BM25_MODEL, EMB_MATRIX,
                   pc, call, embs, qBm25, qEmb, qRows, qRaw, result>>
    /\ UNCHANGED <<apiVars, rankVars, chunkVars, sinkVars, dbVars>>

\* A re-ingestion deletes a row of the chunks table, the newest first.
DeleteChunk(k) ==
    /\ k \in corpus /\ k = Cardinality(corpus)
    /\ corpus' = corpus \ {k}
    /\ UNCHANGED <<CHUNK_ROWS, TOKENIZED_CHUNKS, BM25_MODEL, EMB_MATRIX,
                   pc, call, embs, qBm25, qEmb, qRows, qRaw, result>>
    /\ UNCHANGED <<apiVars, rankVars, chunkVars, sinkVars, dbVars>>

\* Where a worker continues when build_bm25 / build_faiss returns.
AfterBuildBm25(p) == IF call[p] = "retrieve" THEN "r_ensure_emb" ELSE "idle"
AfterBuildFaiss(p) == IF call[p] = "retrieve" THEN "r_rows" ELSE "idle"
CallAfter(p, pos) == IF pos = "idle" THEN "none" ELSE call[p]

\* build_bm25, line 391: _CHUNK_ROWS = _load_chunks(session).  The worker
\* is idle (an explicit reindex) or was sent here by retrieve_with_fusion.
BuildBm25Load(p) ==
    /\ pc[p] = "b_load" \/ (pc[p] = "idle" /\ p \in Reindexers)
    /\ \E ok \in BOOLEAN : CHUNK_ROWS' = LoadChunks(ok)
    /\ pc' = [pc EXCEPT ![p] = "b_tok"]
    /\ call' = [call EXCEPT ![p] = IF pc[p] = "idle" THEN "build_bm25" ELSE @]
    /\ UNCHANGED <<corpus, TOKENIZED_CHUNKS, BM25_MODEL, EMB_MATRIX,
                   embs, qBm25, qEmb, qRows, qRaw, result>>
    /\ UNCHANGED <<apiVars, rankVars, chunkVars, sinkVars, dbVars>>

\* build_bm25, line 392: _TOKENIZED_CHUNKS from the current _CHUNK_ROWS.
BuildBm25Tokenize(p) ==
    /\ pc[p] = "b_tok"
    /\ TOKENIZED_CHUNKS' = CHUNK_ROWS
    /\ pc' = [pc EXCEPT ![p] = "b_model"]
    /\ UNCHANGED <<corpus, CHUNK_ROWS, BM25_MODEL, EMB_MATRIX,
                   call, embs, qBm25, qEmb, qRows, qRaw, result>>
    /\ UNCHANGED <<apiVars, rankVars, chunkVars, sinkVars, dbVars>>

\* build_bm25, lines 393-397: the model, None over an empty list.
BuildBm25Model(p) ==
    /\ pc[p] = "b_model"
    /\ BM25_MODEL' = IF TOKENIZED_CHUNKS = <<>> THEN NoModel
                     ELSE BM25Okapi(TOKENIZED_CHUNKS)
    /\ pc' = [pc EXCEPT ![p] = AfterBuildBm25(p)]
    /\ call' = [call EXCEPT ![p] = CallAfter(p, AfterBuildBm25(p))]
    /\ UNCHANGED <<corpus, CHUNK_ROWS, TOKENIZED_CHUNKS, EMB_MATRIX,
                   embs, qBm25, qEmb, qRows, qRaw, result>>
    /\ UNCHANGED <<apiVars, rankVars, chunkVars, sinkVars, dbVars>>

\* build_faiss, lines 406-407: the rows are loaded only when there are none.
BuildFaissLoad(p) ==
    /\ pc[p] = "f_load" \/ (pc[p] = "idle" /\ p \in Reindexers)
    /\ IF CHUNK_ROWS = <<>>
       THEN \E ok \in BOOLEAN : CHUNK_ROWS' = LoadChunks(ok)
       ELSE UNCHANGED CHUNK_ROWS
    /\ pc' = [pc EXCEPT ![p] = "f_embs"]
    /\ call' = [call EXCEPT ![p] = IF pc[p] = "idle" THEN "build_faiss" ELSE @]
    /\ UNCHANGED <<corpus, TOKENIZED_CHUNKS, BM25_MODEL, EMB_MATRIX,
                   embs, qBm25, qEmb, qRows, qRaw, result>>
    /\ UNCHANGED <<apiVars, rankVars, chunkVars, sinkVars, dbVars>>

\* build_faiss, lines 409-429: one vector per row of the current _CHUNK_ROWS.
BuildFaissEmbs(p) ==
    /\ pc[p] = "f_embs"
    /\ embs' = [embs EXCEPT ![p] = CHUNK_ROWS]
    /\ pc' = [pc EXCEPT ![p] = "f_store"]
    /\ UNCHANGED <<corpus, CHUNK_ROWS, TOKENIZED_CHUNKS, BM25_MODEL, EMB_MATRIX,
                   call, qBm25, qEmb, qRows, qRaw, result>>
    /\ UNCHANGED <<apiVars, rankVars, chunkVars, sinkVars, dbVars>>

\* build_faiss, lines 431-443: the matrix, None without vectors.
BuildFaissStore(p) ==
    /\ pc[p] = "f_store"
    /\ EMB_MATRIX' = IF embs[p] # <<>> THEN Stack(embs[p]) ELSE NoMatrix
    /\ embs' = [embs EXCEPT ![p] = <<>>]
    /\ pc' = [pc EXCEPT ![p] = AfterBuildFaiss(p)]
    /\ call' = [call EXCEPT ![p] = CallAfter(p, AfterBuildFaiss(p))]
    /\ UNCHANGED <<corpus, CHUNK_ROWS, TOKENIZED_CHUNKS, BM25_MODEL,
                   qBm25, qEmb, qRows, qRaw, result>>
    /\ UNCHANGED <<apiVars, rankVars, chunkVars, sinkVars, dbVars>>

\* Line 521 with the test left out: build_bm25 is called by every call.
NeedsBm25_Always == TRUE

\* Line 521: _BM25_MODEL is None or not _CHUNK_ROWS.
NeedsBm25 == ~BM25_MODEL.built \/ CHUNK_ROWS = <<>>

\* Line 523: _EMB_MATRIX is None.
NeedsFaiss == ~EMB_MATRIX.built

\* retrieve_with_fusion, lines 504-522: without a session the call returns
\* []; else build_bm25 is called when the model or the rows are missing.
RetrieveEnsureBm25(p) ==
    /\ pc[p] = "idle" /\ p \in Queriers
    /\ call' = [call EXCEPT ![p] = "retrieve"]
    /\ \E session \in BOOLEAN :
          IF ~session
          THEN /\ pc' = [pc EXCEPT ![p] = "r_done"]
               /\ result' = [result EXCEPT ![p] = "empty"]
          ELSE /\ pc' = [pc EXCEPT ![p] =
                          IF NeedsBm25 THEN "b_load" ELSE "r_ensure_emb"]
               /\ UNCHANGED result
    /\ UNCHANGED <<corpus, CHUNK_ROWS, TOKENIZED_CHUNKS, BM25_MODEL, EMB_MATRIX,
                   embs, qBm25, qEmb, qRows, qRaw>>
    /\ UNCHANGED <<apiVars, rankVars, chunkVars, sinkVars, dbVars>>

\* retrieve_with_fusion, lines 523-524.
RetrieveEnsureEmb(p) ==
    /\ pc[p] = "r_ensure_emb"
    /\ pc' = [pc EXCEPT ![p] = IF NeedsFaiss THEN "f_load" ELSE "r_rows"]
    /\ UNCHANGED <<corpus, CHUNK_ROWS, TOKENIZED_CHUNKS, BM25_MODEL, EMB_MATRIX,
                   call, embs, qBm25, qEmb, qRows, qRaw, result>>
    /\ UNCHANGED <<apiVars, rankVars, chunkVars, sinkVars, dbVars>>

\* retrieve_with_fusion, lines 526-527.
RetrieveCheckRows(p) ==
    /\ pc[p] = "r_rows"
    /\ IF CHUNK_ROWS = <<>>
       THEN /\ pc' = [pc EXCEPT ![p] = "r_done"]
            /\ result' = [result EXCEPT ![p] = "empty"]
       ELSE /\ pc' = [pc EXCEPT ![p] = "r_bm25"]
            /\ UNCHANGED result
    /\ UNCHANGED <<corpus, CHUNK_ROWS, TOKENIZED_CHUNKS, BM25_MODEL, EMB_MATRIX,
                   call, embs, qBm25, qEmb, qRows, qRaw>>
    /\ UNCHANGED <<apiVars, rankVars, chunkVars, sinkVars, dbVars>>

\* retrieve_with_fusion, lines 530-533: the scores of the current model.
RetrieveBm25(p) ==
    /\ pc[p] = "r_bm25"
    /\ qBm25' = [qBm25 EXCEPT ![p] = BM25_MODEL]
    /\ pc' = [pc EXCEPT ![p] = "r_vec"]
    /\ UNCHANGED <<corpus, CHUNK_ROWS, TOKENIZED_CHUNKS, BM25_MODEL, EMB_MATRIX,
                   call, embs, qEmb, qRows, qRaw, result>>
    /\ UNCHANGED <<apiVars, rankVars, chunkVars, sinkVars, dbVars>>

\* retrieve_with_fusion, lines 536-538: _vector_scores on the current matrix.
RetrieveVectors(p) ==
    /\ pc[p] = "r_vec"
    /\ qEmb' = [qEmb EXCEPT ![p] = EMB_MATRIX]
    /\ pc' = [pc EXCEPT ![p] = "r_fuse"]
    /\ UNCHANGED <<corpus, CHUNK_ROWS, TOKENIZED_CHUNKS, BM25_MODEL, EMB_MATRIX,
                   call, embs, qBm25, qRows, qRaw, result>>
    /\ UNCHANGED <<apiVars, rankVars, chunkVars, sinkVars, dbVars>>

\* retrieve_with_fusion, lines 541-548: one fused entry per index of the
\* current _CHUNK_ROWS.
RetrieveFuse(p) ==
    /\ pc[p] = "r_fuse"
    /\ qRows' = [qRows EXCEPT ![p] = CHUNK_ROWS]
    /\ pc' = [pc EXCEPT ![p] = "r_raw"]
    /\ UNCHANGED <<corpus, CHUNK_ROWS, TOKENIZED_CHUNKS, BM25_MODEL, EMB_MATRIX,
                   call, embs, qBm25, qEmb, qRaw, result>>
    /\ UNCHANGED <<apiVars, rankVars, chunkVars, sinkVars, dbVars>>

\* retrieve_with_fusion, lines 550-563: _CHUNK_ROWS[idx] for the fused
\* indices (top_k is at least the number of rows); an index past the end of
\* the current list raises IndexError.
RetrieveRaw(p) ==
    /\ pc[p] = "r_raw"
    /\ IF Len(CHUNK_ROWS) < Len(qRows[p])
       THEN /\ result' = [result EXCEPT ![p] = "IndexError"]
            /\ UNCHANGED qRaw
       ELSE /\ result' = [result EXCEPT ![p] = "hits"]
            /\ qRaw' = [qRaw EXCEPT ![p] = SubSeq(CHUNK_ROWS, 1, Len(qRows[p]))]
    /\ pc' = [pc EXCEPT ![p] = "r_done"]
    /\ UNCHANGED <<corpus, CHUNK_ROWS, TOKENIZED_CHUNKS, BM25_MODEL, EMB_MATRIX,
                   call, embs, qBm25, qEmb, qRows>>
    /\ UNCHANGED <<apiVars, rankVars, chunkVars, sinkVars, dbVars>>

\* retrieve_with_fusion has returned to its caller.
RetrieveReturn(p) ==
    /\ pc[p] = "r_done"
    /\ pc' = [pc EXCEPT ![p] = "idle"]
    /\ call' = [call EXCEPT ![p] = "none"]
    /\ qBm25' = [qBm25 EXCEPT ![p] = NoModel]
    /\ qEmb' = [qEmb EXCEPT ![p] = NoMatrix]
    /\ qRows' = [qRows EXCEPT ![p] = <<>>]
    /\ qRaw' = [qRaw EXCEPT ![p] = <<>>]
    /\ result' = [result EXCEPT ![p] = "none"]
    /\ UNCHANGED <<corpus, CHUNK_ROWS, TOKENIZED_CHUNKS, BM25_MODEL, EMB_MATRIX, embs>>
    /\ UNCHANGED <<apiVars, rankVars, chunkVars, sinkVars, dbVars>>

\* ============================================== scoring and ranking
\* Floats.  Python's float is IEEE-754 binary64: every operation returns the
\* representable number nearest to the exact result, ties going to the even
\* significand.  The model keeps exactly that and shortens the significand
\* from 53 bits to FloatBits; a float is written in units of 1/One.  Raw
\* BM25 scores and cosines are integers: their differences are exact.
FloatBits == 3

Pow2(k) == 2 ^ k

\* 1.0
One == Pow2(2 * FloatBits)

Floats == {f \in {m * Pow2(k) : m \in 0..(Pow2(FloatBits) - 1), k \in 0..(2 * FloatBits)} :
              f <= 2 * One}

MaxOf(S) == CHOOSE x \in S : \A y \in S : x >= y
MinOf(S) == CHOOSE x \in S : \A y \in S : x <= y
Abs(x) == IF x < 0 THEN -x ELSE x

\* The values of a sequence.
Range(seq) == {seq[i] : i \in 1..Len(seq)}

\* The significand of a float.
RECURSIVE Mant(_)
Mant(f) == IF f < Pow2(FloatBits) THEN f ELSE Mant(f \div 2)

\* The float nearest to num/den (in units of 1/One), ties to even.
FlRound(num, den) ==
    LET lo == MaxOf({f \in Floats : f * den <= num})
        hi == MinOf({f \in Floats : f * den >= num})
        dl == num - lo * den
        dh == hi * den - num
    IN  IF dl < dh THEN lo
        ELSE IF dh < dl THEN hi
        ELSE IF Mant(lo) % 2 = 0 THEN lo ELSE hi

FlMul(x, y) == FlRound(x * y, One)
FlAdd(x, y) == FlRound(x + y, 1)
FlSub(x, y) == FlRound(x - y, 1)
\* The quotient of two raw numbers, as a float.
FlDiv(x, y) == FlRound(x * One, y)

\* Python's min(a, b) and max(a, b): b wins only when the comparison with a
\* is true, so a NaN in second place never wins.
PyMin(a, b) == IF FLt(b, a) THEN b ELSE a
PyMax(a, b) == IF FGt(b, a) THEN b ELSE a

\* clamp_alpha: max(0.0, min(1.0, a)).
ClampAlpha(a) == PyMax(0, PyMin(One, a))

DEFAULT_TOP_K == 6
MaxCap == 50

\* top_k is <<"int", n>>, <<"tenths", t>> (the float t/10), <<"text">> (a
\* non-numeric string), <<"inf">> or None.  int(k) raises on the text and on
\* inf, and truncates the float toward zero.
IntRaises(k) == k[1] \notin {"int", "tenths"}

IntOf(k) ==
    IF k[1] = "int" THEN k[2]
    ELSE IF k[2] >= 0 THEN k[2] \div 10 ELSE -((-k[2]) \div 10)

\* _safe_top_k without its lower bound and its cap.
SafeTopK_Unclamped(k) ==
    IF k = None THEN DEFAULT_TOP_K
    ELSE IF IntRaises(k) THEN DEFAULT_TOP_K ELSE IntOf(k)

SafeTopK(k) ==
    IF k = None THEN DEFAULT_TOP_K
    ELSE LET kk == IF IntRaises(k) THEN DEFAULT_TOP_K ELSE IntOf(k)
         IN  MaxOf({1, MinOf({MaxCap, kk})})

\* math.isclose(a, b) with its defaults rel_tol = 1e-09, abs_tol = 0.0.
RelTolInv == 1000000000
IsClose(a, b) == Abs(a - b) <= MaxOf({Abs(a), Abs(b)}) \div RelTolInv

\* _normalize dividing by the largest score instead of the span.
Normalize_DivByHi(scores) ==
    IF scores = <<>> THEN <<>>
    ELSE LET vals == {scores[i] : i \in 1..Len(scores)}
             lo == MinOf(vals)
             hi == MaxOf(vals)
         IN  IF IsClose(hi, lo) THEN [i \in 1..Len(scores) |-> 0]
             ELSE [i \in 1..Len(scores) |-> FlDiv(scores[i] - lo, hi)]

\* _normalize on the scores of indices 0..n-1 (entry i+1 is index i); the
\* dict is the sequence of its values, {} is <<>>.
Normalize(scores) ==
    IF scores = <<>> THEN <<>>
    ELSE LET vals == {scores[i] : i \in 1..Len(scores)}
             lo == MinOf(vals)
             hi == MaxOf(vals)
         IN  IF IsClose(hi, lo) THEN [i \in 1..Len(scores) |-> 0]
             ELSE [i \in 1..Len(scores) |-> FlDiv(scores[i] - lo, hi - lo)]

\* Line 545: a * v + (1 - a) * b.
Fuse(a, v, b) == FlAdd(FlMul(a, v), FlMul(FlSub(One, a), b))

\* ------------------------------------------------------------- inputs
\* Raw scores of one list come from one pool: scores far apart, or scores
\* that differ in the tenth significant digit.
SmallScores == {0, 1, 3}
NearScores == {1000000000, 1000000001, 1000000002}
ScoreLists == BSeq(SmallScores, MaxRows) \cup BSeq(NearScores, MaxRows)

\* Normalized scores and alphas well inside the normal range of the floats.
UnitFloats == {f \in Floats : One \div 4 <= f /\ f <= One}
AlphaInputs == UnitFloats \cup {0, -(One \div 4), One + One \div 4, NaN}

NoRank == [status |-> "none"]

InitRank == rop = "idle" /\ rin = NoRank /\ rres = NoRank

\* A call _normalize(list(enumerate(scores))).
NormalizeCall ==
    /\ rop = "idle"
    /\ \E scores \in ScoreLists :
        /\ rop' = "normalize"
        /\ rin' = [scores |-> scores]
        /\ rres' = [status |-> "ok", norm |-> Normalize(scores)]
    /\ UNCHANGED <<apiVars, cacheVars, chunkVars, sinkVars, dbVars>>

\* The fused score of one candidate under two values of alpha.
FuseCall ==
    /\ rop = "idle"
    /\ \E v \in UnitFloats \cup {0}, b \in UnitFloats \cup {0}, a1 \in AlphaInputs, a2 \in AlphaInputs :
        /\ rop' = "fuse"
        /\ rin' = [v |-> v, b |-> b, alpha1 |-> a1, alpha2 |-> a2]
        /\ rres' = [status |-> "ok",
                    a1 |-> ClampAlpha(a1), a2 |-> ClampAlpha(a2),
                    fused1 |-> Fuse(ClampAlpha(a1), v, b),
                    fused2 |-> Fuse(ClampAlpha(a2), v, b)]
    /\ UNCHANGED <<apiVars, cacheVars, chunkVars, sinkVars, dbVars>>

\* ------------------------------------------------ vectors and the index
\* A stored embedding is a unit vector: [dim |-> d, hot |-> p] has a 1 in
\* component p and 0 elsewhere; hot = 0 is the zero vector of dimension d and
\* NoEmb is np.array([]), what `c.embedding or []` gives for an absent one.
\* A query vector [dim |-> d, w |-> <<..>>] has the components w, then zeros.
EMBED_DIM_DEFAULT == 1536
NoEmb == [dim |-> 0, hot |-> 0]
Zeros(dim) == [dim |-> dim, hot |-> 0]

\* Lines 424-427 and 295-298: a zero vector of dimension dim, overwritten with
\* the first min(dim, v.size) components of v.
PadTo(v, dim) ==
    IF v.dim = dim THEN v
    ELSE [dim |-> dim, hot |-> IF v.hot <= dim THEN v.hot ELSE 0]

\* build_faiss, lines 409-431: the dimension is fixed by the first chunk.
FirstDim(rows) == IF rows[1].emb.dim = 0 THEN EMBED_DIM_DEFAULT ELSE rows[1].emb.dim

BuildMatrix(rows) ==
    [i \in 1..Len(rows) |->
        IF rows[i].emb.dim = 0 THEN Zeros(FirstDim(rows))
        ELSE PadTo(rows[i].emb, FirstDim(rows))]

\* embed_query: the provider's vector, or zeros(EMBED_DIM_DEFAULT) when the
\* provider call fails.
\* EmbedFail stands for a provider call that raised.
EmbedFail == [dim |-> -1, w |-> <<>>]
EmbedQuery(e) ==
    IF e = EmbedFail THEN [dim |-> EMBED_DIM_DEFAULT, w |-> <<>>] ELSE e

\* The dot product of a row with the query; the cosines of the rows are the
\* dot products over one common positive denominator, and 0 for a zero row.
Dot(row, q) == IF row.hot = 0 \/ row.hot > Len(q.w) THEN 0 ELSE q.w[row.hot]

\* _vector_scores: `_EMB_MATRIX @ qvec` needs matching dimensions.
VectorScores(matrix, q) ==
    IF matrix = <<>> THEN [raise |-> FALSE, sims |-> <<>>]
    ELSE IF matrix[1].dim # q.dim THEN [raise |-> TRUE, sims |-> <<>>]
    ELSE [raise |-> FALSE, sims |-> [i \in 1..Len(matrix) |-> Dot(matrix[i], q)]]

\* dict.get(idx, 0.0)
GetOr0(norm, i) == IF i \in DOMAIN norm THEN norm[i] ELSE 0

\* Lines 541-545 and 302-319: one fused entry per row; key is the third
\* sort key (the list index, or the chunk id).
FuseAll(keys, a, bm25_norm, vec_norm) ==
    [i \in 1..Len(keys) |->
        [idx |-> i, key |-> keys[i],
         fused |-> Fuse(a, GetOr0(vec_norm, i), GetOr0(bm25_norm, i)),
         b |-> GetOr0(bm25_norm, i), v |-> GetOr0(vec_norm, i)]]

\* The sort with the third key taken as it is: (fused, b, key), reverse = True.
RankBefore_KeyDescending(x, y) ==
    \/ x.fused > y.fused
    \/ x.fused = y.fused /\ x.b > y.b
    \/ x.fused = y.fused /\ x.b = y.b /\ x.key > y.key

\* sort(key = (fused, b, -key), reverse = True): x comes before y.
RankBefore(x, y) ==
    \/ x.fused > y.fused
    \/ x.fused = y.fused /\ x.b > y.b
    \/ x.fused = y.fused /\ x.b = y.b /\ x.key < y.key

RECURSIVE SortSet(_)
SortSet(S) ==
    IF S = {} THEN <<>>
    ELSE LET m == CHOOSE x \in S : \A y \in S \ {x} : RankBefore(x, y)
         IN  <<m>> \o SortSet(S \ {m})

SortFused(fused) == SortSet(Range(fused))

\* seq[:n]
Take(seq, n) == SubSeq(seq, 1, MinOf({n, Len(seq)}))

Idxs(seq) == [i \in 1..Len(seq) |-> seq[i].idx]

Returned(out) == [status |-> "ok", out |-> out]
Raised(exc) == [status |-> "raise", exc |-> exc, out |-> <<>>]

\* _load_chunks without its except clause's empty list: the table is used
\* although the query failed.
RankedRows_IgnoreLoadFailure(in) == in.table

\* _CHUNK_ROWS after lines 521-524: the cached rows, or what _load_chunks
\* returns, which is [] when the chunks query fails.
RankedRows(in) == IF in.cache = "ready" \/ in.loadOk THEN in.table ELSE <<>>

\* retrieve_with_fusion, lines 529-545: the fused list before it is sorted.
RetrieveScored(in) ==
    LET rows == RankedRows(in)
        vs == VectorScores(BuildMatrix(rows), EmbedQuery(in.embed))
    IN  FuseAll([i \in 1..Len(rows) |-> i], ClampAlpha(in.alpha),
                Normalize([i \in 1..Len(rows) |-> rows[i].bm25]), Normalize(vs.sims))

\* retrieve_with_fusion, start to end, on caches that are cold or were built
\* from the table as it is.  in.session: a session is given or can be made;
\* in.cache: "ready" or "cold"; in.loadOk: the chunks query succeeds.
RetrieveRun(in) ==
    LET k == SafeTopK(in.top_k)
        rows == RankedRows(in)
        vs == VectorScores(BuildMatrix(rows), EmbedQuery(in.embed))
    IN  IF ~in.session THEN Returned(<<>>)
        ELSE IF rows = <<>> THEN Returned(<<>>)
        ELSE IF vs.raise THEN Raised("ValueError")
        ELSE Returned(Idxs(Take(SortFused(RetrieveScored(in)), MaxOf({1, k}))))

\* bm25_search_hts: sorted(enumerate(scores), key = (score, -idx),
\* reverse = True)[:k].
Bm25Entries(scores) ==
    [i \in 1..Len(scores) |-> [idx |-> i, key |-> i, fused |-> scores[i], b |-> 0, v |-> 0]]

Bm25SearchRun(in) ==
    LET k == SafeTopK(in.top_k)
        rows == IF in.loadOk THEN in.table ELSE <<>>
    IN  IF rows = <<>> THEN Returned(<<>>)
        ELSE Returned(Idxs(Take(SortFused(Bm25Entries(rows)), k)))

\* hybrid_search_rulings: every stored embedding is padded or truncated to
\* the dimension of the query vector.
HybridVecs(rows, qvec) ==
    [i \in 1..Len(rows) |-> PadTo(rows[i].emb, IF qvec.dim > 0 THEN qvec.dim ELSE EMBED_DIM_DEFAULT)]

\* hybrid_search_rulings, lines 280-321: the rows before they are sorted.
HybridScored(in) ==
    LET qvec == EmbedQuery(in.embed)
        pairs == IF in.loadOk THEN in.table ELSE <<>>
        vecs == HybridVecs(pairs, qvec)
    IN  FuseAll([i \in 1..Len(pairs) |-> pairs[i].id], ClampAlpha(in.alpha),
                Normalize([i \in 1..Len(pairs) |-> pairs[i].bm25]),
                Normalize([i \in 1..Len(pairs) |-> IF qvec.dim = 0 THEN 0 ELSE Dot(vecs[i], qvec)]))

HybridRun(in) ==
    LET k == SafeTopK(in.top_k)
        pairs == IF in.loadOk THEN in.table ELSE <<>>
    IN  IF pairs = <<>> THEN Returned(<<>>)
        ELSE Returned(Idxs(Take(SortFused(HybridScored(in)), k)))

\* top_k arguments: None, a non-numeric string, inf, integers, the float 2.7.
TopKs == {None, <<"text">>, <<"inf">>, <<"int", -1>>, <<"int", 0>>, <<"int", 1>>,
          <<"int", 2>>, <<"int", 50>>, <<"int", 51>>, <<"tenths", 27>>}

\* Query vectors the provider returns; Q0 is an empty vector.
Q2 == [dim |-> 2, w |-> <<2, 1>>]
QD == [dim |-> EMBED_DIM_DEFAULT, w |-> <<1, 3>>]
Q0 == [dim |-> 0, w |-> <<>>]
EmbedOutcomes == {EmbedFail, Q2, QD}

\* Stored embeddings: absent, of dimension 2, of dimension EMBED_DIM_DEFAULT.
E21 == [dim |-> 2, hot |-> 1]
ED2 == [dim |-> EMBED_DIM_DEFAULT, hot |-> 2]
ED3 == [dim |-> EMBED_DIM_DEFAULT, hot |-> 3]
Embs == {NoEmb, E21, ED2}

ChunkRowPool == [bm25 : SmallScores, emb : Embs]
PlainRowPool == [bm25 : SmallScores, emb : {E21}]

Alphas == {0, One \div 2, One}

\* Calls on a built index (alpha, the query embedding and the stored
\* embeddings vary), calls with every kind of top_k, and calls on a cold
\* process whose table is empty or cannot be read.
RetrieveInputs ==
    [session : {TRUE}, cache : {"ready"}, loadOk : {TRUE},
     table : BSeq(ChunkRowPool, MaxTable) \ {<<>>},
     top_k : {None}, alpha : Alphas, embed : EmbedOutcomes]
    \cup
    [session : {TRUE}, cache : {"cold"}, loadOk : {TRUE},
     table : BSeq(PlainRowPool, MaxTable),
     top_k : TopKs, alpha : {One \div 2}, embed : {Q2}]
    \cup
    [session : BOOLEAN, cache : {"cold"}, loadOk : BOOLEAN,
     table : BSeq(ChunkRowPool, 1),
     top_k : TopKs, alpha : Alphas \cup {NaN, -One, 2 * One}, embed : EmbedOutcomes]

RetrieveCall ==
    /\ rop = "idle"
    /\ \E in \in RetrieveInputs :
        /\ rop' = "retrieve_with_fusion"
        /\ rin' = in
        /\ rres' = RetrieveRun(in)
    /\ UNCHANGED <<apiVars, cacheVars, chunkVars, sinkVars, dbVars>>

Bm25SearchInputs ==
    [loadOk : BOOLEAN, table : BSeq(SmallScores, MaxTable), top_k : TopKs]

Bm25SearchCall ==
    /\ rop = "idle"
    /\ \E in \in Bm25SearchInputs :
        /\ rop' = "bm25_search_hts"
        /\ rin' = in
        /\ rres' = Bm25SearchRun(in)
    /\ UNCHANGED <<apiVars, cacheVars, chunkVars, sinkVars, dbVars>>

\* The joined ruling chunks, in the order the query returns them; the ids
\* rise or fall along that order.
PairPool == [bm25 : {0, 1}, emb : Embs]
WithIds(rows, rising) ==
    [i \in 1..Len(rows) |->
        [id |-> IF rising THEN i ELSE Len(rows) + 1 - i,
         bm25 |-> rows[i].bm25, emb |-> rows[i].emb]]
PairTables == {WithIds(rows, rising) : rows \in BSeq(PairPool, MaxPairs), rising \in BOOLEAN}

HybridInputs ==
    [loadOk : {TRUE}, table : PairTables,
     top_k : {None, <<"int", 1>>}, alpha : Alphas, embed : EmbedOutcomes \cup {Q0}]
    \cup
    [loadOk : {FALSE}, table : {t \in PairTables : Len(t) <= 1},
     top_k : TopKs, alpha : Alphas \cup {NaN, -One, 2 * One}, embed : EmbedOutcomes]

HybridCall ==
    /\ rop = "idle"
    /\ \E in \in HybridInputs :
        /\ rop' = "hybrid_search_rulings"
        /\ rin' = in
        /\ rres' = HybridRun(in)
    /\ UNCHANGED <<apiVars, cacheVars, chunkVars, sinkVars, dbVars>>

\* build_faiss on an empty _CHUNK_ROWS: load, then build the matrix.
BuildFaissInputs ==
    [loadOk : BOOLEAN, table : BSeq([bm25 : {0}, emb : Embs \cup {ED3, Zeros(2)}], MaxTable)]

BuildFaissRun(in) ==
    LET rows == IF in.loadOk THEN in.table ELSE <<>>
    IN  [status |-> "ok", rows |-> rows,
         matrix |-> IF rows = <<>> THEN <<>> ELSE BuildMatrix(rows)]

BuildFaissCall ==
    /\ rop = "idle"
    /\ \E in \in BuildFaissInputs :
        /\ rop' = "build_faiss"
        /\ rin' = in
        /\ rres' = BuildFaissRun(in)
    /\ UNCHANGED <<apiVars, cacheVars, chunkVars, sinkVars, dbVars>>

\* The call has returned.
RankReturn ==
    /\ rop # "idle"
    /\ rop' = "idle" /\ rin' = NoRank /\ rres' = NoRank
    /\ UNCHANGED <<apiVars, cacheVars, chunkVars, sinkVars, dbVars>>
\* =========================================================== the chunker
NoArgs == [doc |-> "", text |-> <<>>, window |-> 0, overlap |-> 0]
NoPrev == [args |-> NoArgs, out |-> <<>>]

InitChunk ==
    /\ cop = "idle" /\ cargs = NoArgs /\ ci = 0 /\ csection = 0 /\ cout = <<>>
    /\ cprev = NoPrev

\* text[i:j] for integers i and j: a negative index counts from the end, and
\* both are clipped to the text.
PyIndex(k, n) == IF k < 0 THEN MaxOf({k + n, 0}) ELSE MinOf({k, n})
Slice(text, i, j) ==
    IF PyIndex(i, Len(text)) >= PyIndex(j, Len(text)) THEN <<>>
    ELSE SubSeq(text, PyIndex(i, Len(text)) + 1, PyIndex(j, Len(text)))

\* str(n) for n >= 0, one string per decimal digit.
DigitChars == <<"0", "1", "2", "3", "4", "5", "6", "7", "8", "9">>
RECURSIVE Str(_)
Str(n) == IF n < 10 THEN <<DigitChars[n + 1]>> ELSE Str(n \div 10) \o <<DigitChars[(n % 10) + 1]>>

\* zeros in front of digits up to the width w.
RECURSIVE ZeroPad(_, _)
ZeroPad(digits, w) == IF Len(digits) >= w THEN digits ELSE ZeroPad(<<"0">> \o digits, w)

\* f"{offset:06d}": six characters at least, the sign included.
Fmt06d(n) == IF n < 0 THEN <<"-">> \o ZeroPad(Str(-n), 5) ELSE ZeroPad(Str(n), 6)

\* The identifier taken from a counter of the chunks made so far, not from
\* the section and the offset.
ChunkIdOf_Counter(doc_id, section_idx, offset) ==
    <<doc_id, "#s">> \o Str(section_idx + Len(cprev.out)) \o <<"-o">> \o Fmt06d(offset)

\* _chunk_id: f"{doc_id}#s{section_idx}-o{offset:06d}".
ChunkIdOf(doc_id, section_idx, offset) ==
    <<doc_id, "#s">> \o Str(section_idx) \o <<"-o">> \o Fmt06d(offset)

\* Line 57 without the overlap: i = j.
NextOffset_NoOverlap(j, overlap) == j

\* Line 57: i = j - overlap.
NextOffset(j, overlap) == j - overlap

Chars == {"a", "b"}
Texts == BSeq(Chars, MaxText)
Windows == 1..MaxWindow
Overlaps == 0..MaxWindow
DocIds == {"htsus:84:8407.10", "htsus:84:8407.10@2025-01-01"}

\* for ... in _deterministic_chunks(text, window, overlap), with _chunk_id
\* on every tuple as at line 139: the generator is made; nothing of its body
\* has run yet.  When the run before was kept, this one repeats its arguments.
ChunkStart ==
    /\ cop = "idle"
    /\ \E doc \in DocIds, text \in Texts, window \in Windows, overlap \in Overlaps :
        /\ cargs' = [doc |-> doc, text |-> text, window |-> window, overlap |-> overlap]
        /\ cprev # NoPrev => cargs' = cprev.args
    /\ cop' = "running"
    /\ ci' = 0 /\ csection' = 0 /\ cout' = <<>>
    /\ UNCHANGED cprev
    /\ UNCHANGED <<apiVars, cacheVars, rankVars, sinkVars, dbVars>>

\* One turn of the while loop, lines 52-58.  The consumer stops asking after
\* MaxYield chunks.
ChunkStep ==
    /\ cop = "running"
    /\ Len(cout) < MaxYield
    /\ LET n == Len(cargs.text)
           j == MinOf({ci + cargs.window, n})
       IN  IF ci < n
           THEN /\ cout' = Append(cout, [section |-> csection, offset |-> ci,
                                         text |-> Slice(cargs.text, ci, j),
                                         id |-> ChunkIdOf(cargs.doc, csection, ci)])
                /\ IF j = n
                   THEN cop' = "done" /\ UNCHANGED <<ci, csection>>
                   ELSE /\ ci' = NextOffset(j, cargs.overlap)
                        /\ csection' = csection + 1
                        /\ cop' = "running"
           ELSE cop' = "done" /\ UNCHANGED <<ci, csection, cout>>
    /\ UNCHANGED <<cargs, cprev, apiVars, cacheVars, rankVars, sinkVars, dbVars>>

\* The consumer is finished with the generator; the output of a finished
\* first run may be kept to compare the next run with.
ChunkReturn ==
    /\ cop = "done" \/ (cop = "running" /\ Len(cout) = MaxYield)
    /\ \/ cprev' = NoPrev
       \/ cop = "done" /\ cprev = NoPrev /\ cprev' = [args |-> cargs, out |-> cout]
    /\ cop' = "idle" /\ cargs' = NoArgs /\ ci' = 0 /\ csection' = 0 /\ cout' = <<>>
    /\ UNCHANGED <<apiVars, cacheVars, rankVars, sinkVars, dbVars>>

\* ============================================ load_htsus and its files
\* The window and the overlap load_htsus chunks with: the defaults 800 and
\* 120 of _deterministic_chunks, scaled to the texts of the model.
HtsWindow == 3
HtsOverlap == 1

\* list(_deterministic_chunks(text, window, overlap)) for the rest of a run
\* that stands at offset i and section number section.
RECURSIVE ChunksFrom(_, _, _, _, _)
ChunksFrom(text, window, overlap, i, section) ==
    IF i >= Len(text) THEN <<>>
    ELSE LET j == MinOf({i + window, Len(text)})
         IN  <<[section |-> section, offset |-> i, text |-> Slice(text, i, j)]>>
             \o (IF j = Len(text) THEN <<>>
                 ELSE ChunksFrom(text, window, overlap, NextOffset(j, overlap), section + 1))

\* Line 118 with the test left out: the doc file is taken as missing.
DocFileExists_Never(doc_id, files) == FALSE

\* Line 118: doc_file.exists().
DocFileExists(doc_id, files) == doc_id \in files

\* Line 140 with the test left out.
InExisting_Never(cid, existing) == FALSE

\* Line 140: cid in existing.
InExisting(cid, existing) == cid \in existing

\* Lines 130-135: the chunk_ids read from the chunk file.
Existing(file) == {file[k].chunk_id : k \in 1..Len(file)}

\* Lines 137-148 for one document: the records appended to its chunk file.
\* existing is read once, before the loop.
Appended(d, file) ==
    LET chunks == ChunksFrom(d.text, HtsWindow, HtsOverlap, 0, 0)
        recs == [k \in 1..Len(chunks) |->
                    [chunk_id |-> ChunkIdOf(d.doc, chunks[k].section, chunks[k].offset),
                     text |-> chunks[k].text]]
        IsNew(r) == ~InExisting(r.chunk_id, Existing(file))
    IN  SelectSeq(recs, IsNew)

\* Lines 112-148 from the k-th record on; st is [docs, chunks, counts].
RECURSIVE LoadFrom(_, _, _)
LoadFrom(files, k, st) ==
    IF k > Len(files) THEN st
    ELSE LET d == files[k]
             known == DocFileExists(d.doc, st.docs)
             new == Appended(d, st.chunks[d.doc])
         IN  LoadFrom(files, k + 1,
                 [docs |-> st.docs \cup {d.doc},
                  chunks |-> [st.chunks EXCEPT ![d.doc] = @ \o new],
                  counts |-> [docs |-> st.counts.docs + (IF known THEN 0 ELSE 1),
                              chunks |-> st.counts.chunks + Len(new)]])

NoCounts == [docs |-> 0, chunks |-> 0]
NoRun == [ran |-> FALSE, repeat |-> FALSE, counts |-> NoCounts,
          docsBefore |-> {}, chunksBefore |-> [d \in DocIds |-> <<>>]]

InitSink ==
    /\ srcFiles = <<>> /\ docFiles = {} /\ chunkFiles = [d \in DocIds |-> <<>>]
    /\ srcChanged = FALSE /\ lastRun = NoRun

\* Texts of the source records: empty, one window, and longer ones that
\* agree or disagree with it on the first window.
SinkTexts == {<<>>, <<"a", "b", "a">>, <<"a", "b", "a", "b", "b">>, <<"b", "b", "a", "a", "b", "a">>}

\* The files under data/htsus are edited: a record is added (the same doc_id
\* may come from several files), the last one is removed, or the text of
\* one is changed.
WriteSource ==
    /\ \/ /\ Len(srcFiles) < MaxFiles
          /\ \E rec \in [doc : DocIds, text : SinkTexts] : srcFiles' = Append(srcFiles, rec)
       \/ /\ srcFiles # <<>>
          /\ srcFiles' = SubSeq(srcFiles, 1, Len(srcFiles) - 1)
       \/ \E k \in 1..Len(srcFiles) : \E text \in SinkTexts \ {srcFiles[k].text} :
             srcFiles' = [srcFiles EXCEPT ![k].text = text]
    /\ srcChanged' = TRUE
    /\ UNCHANGED <<docFiles, chunkFiles, lastRun>>
    /\ UNCHANGED <<apiVars, cacheVars, rankVars, chunkVars, dbVars>>

\* load_htsus(chapters), start to end.
LoadHtsus ==
    /\ \E st \in {LoadFrom(srcFiles, 1, [docs |-> docFiles, chunks |-> chunkFiles, counts |-> NoCounts])} :
        /\ docFiles' = st.docs
        /\ chunkFiles' = st.chunks
        /\ lastRun' = [ran |-> TRUE, repeat |-> lastRun.ran /\ ~srcChanged, counts |-> st.counts,
                       docsBefore |-> docFiles, chunksBefore |-> chunkFiles]
    /\ srcChanged' = FALSE
    /\ UNCHANGED srcFiles
    /\ UNCHANGED <<apiVars, cacheVars, rankVars, chunkVars, dbVars>>

\* ============================================================ chunk_text
\* max(1, len(w) // 4): the token estimate of a word (lines 25, 35, 38) and
\* of a chunk (count_tokens).
Tok(w) == MaxOf({1, Len(w) \div 4})

CountTokens(text) == MaxOf({1, Len(text) \div 4})

\* text.split(" "): the pieces between single spaces, the empty ones kept.
RECURSIVE SplitFrom(_, _, _)
SplitFrom(text, k, cur) ==
    IF k > Len(text) THEN <<cur>>
    ELSE IF text[k] = SP THEN <<cur>> \o SplitFrom(text, k + 1, <<>>)
    ELSE SplitFrom(text, k + 1, Append(cur, text[k]))

Split(text) == SplitFrom(text, 1, <<>>)

\* " ".join(words)
RECURSIVE Join(_)
Join(words) ==
    IF words = <<>> THEN <<>>
    ELSE IF Len(words) = 1 THEN words[1]
    ELSE words[1] \o <<SP>> \o Join(Tail(words))

RECURSIVE SumTok(_)
SumTok(ws) == IF ws = <<>> THEN 0 ELSE Tok(Head(ws)) + SumTok(Tail(ws))

\* Lines 32-37: the words kept for the overlap, taken from the end of cur
\* until their tokens reach overlap; k is the word the loop stands at.
RECURSIVE KeepStart(_, _, _, _)
KeepStart(cur, k, tok, overlap) ==
    IF tok + Tok(cur[k]) >= overlap \/ k = 1 THEN k
    ELSE KeepStart(cur, k - 1, tok + Tok(cur[k]), overlap)

Keep(cur, overlap) == SubSeq(cur, KeepStart(cur, Len(cur), 0, overlap), Len(cur))

\* Lines 27-28 and 42-43: the chunk made of the words of cur. The field
\* words records what the chunk was joined from.
Flushed(cur) ==
    LET ctext == Strip(Join(cur))
    IN  [text |-> ctext, tokens |-> CountTokens(ctext), words |-> cur]

\* Lines 24-44 from the k-th word on.
RECURSIVE ChunkLoop(_, _, _, _, _, _, _)
ChunkLoop(words, k, cur, cur_tok, chunks, max_tokens, overlap) ==
    IF k > Len(words)
    THEN IF cur # <<>> THEN Append(chunks, Flushed(cur)) ELSE chunks
    ELSE LET w == words[k]
             t == Tok(w)
         IN  IF cur # <<>> /\ cur_tok + t > max_tokens
             THEN LET kept == Keep(cur, overlap)
                  IN  ChunkLoop(words, k + 1, Append(kept, w), SumTok(kept) + t,
                                Append(chunks, Flushed(cur)), max_tokens, overlap)
             ELSE ChunkLoop(words, k + 1, Append(cur, w), cur_tok + t, chunks, max_tokens, overlap)

ChunkText(text, max_tokens, overlap) == ChunkLoop(Split(text), 1, <<>>, 0, <<>>, max_tokens, overlap)

\* normalize_text on texts of letters and spaces: runs of spaces become one
\* space, and the ends are stripped.
RECURSIVE Collapse(_)
Collapse(s) ==
    IF Len(s) < 2 THEN s
    ELSE IF s[1] = SP /\ s[2] = SP THEN Collapse(Tail(s))
    ELSE <<s[1]>> \o Collapse(Tail(s))

NormalizeText(text) == Strip(Collapse(text))

\* f"src:{source_id}:v{version}:p{page}:c{idx}"
MakeChunkId(source_id, version, page, idx) ==
    <<"s", "r", "c", ":">> \o Str(source_id) \o <<":", "v">> \o Str(version)
        \o <<":", "p">> \o Str(page) \o <<":", "c">> \o Str(idx)

\* Words of one, eight and twelve characters: one, two and three tokens.
W1 == <<"a">>
W8 == <<"b", "b", "b", "b", "b", "b", "b", "b">>
W12 == <<"c", "c", "c", "c", "c", "c", "c", "c", "c", "c", "c", "c">>

\* ============================================= chunk_text and hydration
ChunkWords == {<<>>, W1, W8, W12}
ChunkTexts == {Join(ws) : ws \in BSeq(ChunkWords, MaxWords)}

\* A call chunk_text(text, max_tokens, overlap).
ChunkTextCall ==
    /\ rop = "idle"
    /\ \E text \in ChunkTexts, max_tokens \in 1..MaxTokens, overlap \in 0..MaxOverlap :
        /\ rin' = [text |-> text, max_tokens |-> max_tokens, overlap |-> overlap]
        /\ rres' = [status |-> "ok", chunks |-> ChunkText(text, max_tokens, overlap)]
    /\ rop' = "chunk_text"
    /\ UNCHANGED <<apiVars, cacheVars, chunkVars, sinkVars, dbVars>>

\* s.query(Chunk).filter_by(chunk_id=cid).first(): the rows of the chunks
\* table with that chunk_id; the column is unique.
RowsWith(db, cid) == {r \in db : r.chunk_id = cid}

\* Line 475 with the primary key of the row in the place of idx.
AnchorOf_RowId(r) == Str(r.source_id) \o <<"#">> \o Str(r.id)

\* Line 475: f"{r.source_id}#{r.idx}"
AnchorOf(r) == Str(r.source_id) \o <<"#">> \o Str(r.idx)

\* [:300], with SnippetLen in the place of 300.
Cut(text) == SubSeq(text, 1, MinOf({Len(text), SnippetLen}))

\* Lines 470-478: the item of one hit.
HydrateOne(db, h) ==
    IF h.chunk_id # <<>> /\ RowsWith(db, h.chunk_id) # {}
    THEN LET r == CHOOSE x \in RowsWith(db, h.chunk_id) : TRUE
         IN  [code |-> r.code, anchor |-> AnchorOf(r),
              snippet |-> Cut(IF r.text # <<>> THEN r.text ELSE h.text), score |-> h.score]
    ELSE [code |-> None, anchor |-> h.chunk_id, snippet |-> Cut(h.text), score |-> h.score]

\* _hydrate_hits_with_meta(hits): fails says that the engine, the session
\* or a query raised, which the except clause turns into the minimal items.
Hydrate(db, raw, fails) ==
    IF fails
    THEN [k \in 1..Len(raw) |->
            [code |-> None, anchor |-> raw[k].chunk_id, snippet |-> Cut(raw[k].text), score |-> raw[k].score]]
    ELSE [k \in 1..Len(raw) |-> HydrateOne(db, raw[k])]

\* Rows of the chunks table: the primary key id is not the position idx.
TextShort == W1 \o <<SP>> \o W1
TextLong == W1 \o <<SP>> \o W1 \o <<SP>> \o W8
HydRows ==
    {[id |-> 7, chunk_id |-> MakeChunkId(1, 1, 0, 0), source_id |-> 1, idx |-> 0, text |-> TextShort, code |-> CodeA],
     [id |-> 3, chunk_id |-> MakeChunkId(1, 1, 0, 1), source_id |-> 1, idx |-> 1, text |-> TextLong, code |-> None],
     [id |-> 4, chunk_id |-> MakeChunkId(2, 3, 0, 0), source_id |-> 2, idx |-> 0, text |-> <<>>, code |-> CodeB]}

\* Raw hits of retrieve_with_fusion: chunk_id and text of a cached row.
HydHits ==
    {[chunk_id |-> r.chunk_id, text |-> t, score |-> s] : r \in HydRows, t \in {TextShort, TextLong}, s \in {One}}

\* A call _hydrate_hits_with_meta(raw) at the end of retrieve_with_fusion,
\* over the chunks table as it is then.
HydrateCall ==
    /\ rop = "idle"
    /\ \E db \in SUBSET HydRows, raw \in BSeq(HydHits, MaxHits), fails \in BOOLEAN :
        /\ rin' = [db |-> db, hits |-> raw, fails |-> fails]
        /\ rres' = [status |-> "ok", out |-> Hydrate(db, raw, fails)]
    /\ rop' = "hydrate"
    /\ UNCHANGED <<apiVars, cacheVars, chunkVars, sinkVars, dbVars>>

\* ======================================= upsert_hts and upsert_ruling
NoCall == [fn |-> "none"]

InitDb == srcDocs = <<>> /\ dbChunks = <<>> /\ dbres = NoCall

DocKey(d) == <<d.source_type, d.external_id, d.version>>

Keys(docs) == {DocKey(docs[k]) : k \in 1..Len(docs)}

\* uq_src_ver: the flush of a row whose (source_type, external_id, version)
\* is in the table raises IntegrityError.
ViolatesUqSrcVer(docs, src) == DocKey(src) \in Keys(docs)

\* The Chunk rows of the parts of one source document.
ChunkRowsOf(src, parts) ==
    [k \in 1..Len(parts) |->
        [source_id |-> src.id, chunk_id |-> MakeChunkId(src.id, src.version, 0, k - 1),
         text |-> parts[k].text, idx |-> k - 1]]

\* session.add(src); session.flush(); the chunks; session.add_all; commit.
\* st is [docs, chunks, status, tried, ids]: the two tables, whether the
\* call has raised, the keys it flushed and the chunk_ids it made.
Store(st, src, parts) ==
    IF ViolatesUqSrcVer(st.docs, src)
    THEN [st EXCEPT !.status = "raise", !.tried = Append(@, DocKey(src))]
    ELSE LET rows == ChunkRowsOf(src, parts)
         IN  [docs |-> Append(st.docs, src), chunks |-> st.chunks \o rows, status |-> "ok",
              tried |-> Append(st.tried, DocKey(src)),
              ids |-> st.ids \o [k \in 1..Len(rows) |-> rows[k].chunk_id]]

\* Lines 44-50 of hts.py: the version after the latest one stored.
NextVersion(docs, code) ==
    LET prev == {k \in 1..Len(docs) : docs[k].source_type = "hts" /\ docs[k].external_id = code}
    IN  IF prev = {} THEN 1 ELSE MaxOf({docs[k].version : k \in prev}) + 1

\* _upsert_one_item
UpsertOneItem(st, payload, max_tokens, overlap) ==
    LET parts == ChunkText(NormalizeText(payload.text), max_tokens, overlap)
        src == [id |-> Len(st.docs) + 1, source_type |-> "hts", external_id |-> payload.code,
                version |-> NextVersion(st.docs, payload.code)]
    IN  Store(st, src, parts)

\* Lines 115-123 of hts.py from the k-th item on; an exception ends the loop.
RECURSIVE UpsertItems(_, _, _, _, _)
UpsertItems(st, items, k, max_tokens, overlap) ==
    IF k > Len(items) \/ st.status = "raise" THEN st
    ELSE UpsertItems(UpsertOneItem(st, items[k], max_tokens, overlap), items, k + 1, max_tokens, overlap)

\* Lines 72-75 of rulings.py: the parts of all paragraphs.
RECURSIVE PartsOf(_, _, _)
PartsOf(texts, max_tokens, overlap) ==
    IF texts = <<>> THEN <<>>
    ELSE ChunkText(Head(texts), max_tokens, overlap) \o PartsOf(Tail(texts), max_tokens, overlap)

\* Lines 61-82 of rulings.py.
UpsertRulingRun(st, ruling_id, texts, max_tokens, overlap) ==
    Store(st, [id |-> Len(st.docs) + 1, source_type |-> "ruling", external_id |-> ruling_id, version |-> 1],
          PartsOf(texts, max_tokens, overlap))

DbCodes == {"8504.40", "8471.30"}
RulingIds == {"N123456", "H654321"}
DbTexts == {<<>>, W1 \o <<SP, SP>> \o W8, W8 \o <<SP>> \o W1 \o <<SP>> \o W1}
Paragraphs == {W1 \o <<SP>> \o W8, W8}
HtsFiles == BSeq([code : DbCodes, text : DbTexts], MaxItems) \ {<<>>}
RulingFiles == BSeq(Paragraphs, MaxParas)

\* What a call leaves behind: its arguments, the tables before it, and
\* whether it repeats the call before it.
Outcome(fn, args, st) ==
    [fn |-> fn, args |-> args, status |-> st.status, tried |-> st.tried, ids |-> st.ids,
     docsBefore |-> srcDocs, chunksBefore |-> dbChunks,
     repeat |-> dbres.fn = fn /\ dbres.args = args /\ dbres.status = "ok",
     prevIds |-> IF dbres.fn = "none" THEN <<>> ELSE dbres.ids]

StartOf(docs, chunks) == [docs |-> docs, chunks |-> chunks, status |-> "ok", tried |-> <<>>, ids |-> <<>>]

\* upsert_hts(session, path, max_tokens, overlap, do_embed=False) over a
\* file with a list of items.
UpsertHts ==
    /\ \E items \in HtsFiles, max_tokens \in 1..MaxTokens, overlap \in 0..MaxOverlap :
        /\ Len(srcDocs) + Len(items) <= MaxDocs
        /\ \E st \in {UpsertItems(StartOf(srcDocs, dbChunks), items, 1, max_tokens, overlap)} :
            /\ srcDocs' = st.docs
            /\ dbChunks' = st.chunks
            /\ dbres' = Outcome("upsert_hts", [items |-> items, max_tokens |-> max_tokens, overlap |-> overlap], st)
    /\ UNCHANGED <<apiVars, cacheVars, rankVars, chunkVars, sinkVars>>

\* upsert_ruling(session, ruling_id, max_tokens, overlap, do_embed=False)
\* over the paragraphs normalize_ruling wrote.
UpsertRuling ==
    /\ \E ruling_id \in RulingIds, texts \in RulingFiles, max_tokens \in 1..MaxTokens, overlap \in 0..MaxOverlap :
        /\ Len(srcDocs) < MaxDocs
        /\ \E st \in {UpsertRulingRun(StartOf(srcDocs, dbChunks), ruling_id, texts, max_tokens, overlap)} :
            /\ srcDocs' = st.docs
            /\ dbChunks' = st.chunks
            /\ dbres' = Outcome("upsert_ruling", [items |-> <<[code |-> ruling_id, text |-> Join(texts)]>>,
                                                   max_tokens |-> max_tokens, overlap |-> overlap], st)
    /\ UNCHANGED <<apiVars, cacheVars, rankVars, chunkVars, sinkVars>>

Init == InitApi /\ InitCache /\ InitRank /\ InitChunk /\ InitSink /\ InitDb

Next == Finalize \/ Fallback \/ Classify \/ Return

Spec == Init /\ [][Next]_vars

\* The retriever alone: calls of its three entry points by the workers of
\* the server, and changes of the chunks table.
NextCache ==
    \/ \E k \in ChunkIds : IngestChunk(k) \/ DeleteChunk(k)
    \/ \E p \in Workers :
          \/ BuildBm25Load(p) \/ BuildBm25Tokenize(p) \/ BuildBm25Model(p)
          \/ BuildFaissLoad(p) \/ BuildFaissEmbs(p) \/ BuildFaissStore(p)
          \/ RetrieveEnsureBm25(p) \/ RetrieveEnsureEmb(p) \/ RetrieveCheckRows(p)
          \/ RetrieveBm25(p) \/ RetrieveVectors(p) \/ RetrieveFuse(p)
          \/ RetrieveRaw(p) \/ RetrieveReturn(p)

SpecCache == Init /\ [][NextCache]_vars

\* The scoring and ranking functions alone.
NextRank ==
    \/ NormalizeCall \/ FuseCall \/ RetrieveCall \/ Bm25SearchCall
    \/ HybridCall \/ BuildFaissCall \/ RankReturn

SpecRank == Init /\ [][NextRank]_vars

\* The chunker alone.
NextChunk == ChunkStart \/ ChunkStep \/ ChunkReturn

SpecChunk == Init /\ [][NextChunk]_vars

\* load_htsus and the files it reads and writes.
NextSink == WriteSource \/ LoadHtsus

SpecSink == Init /\ [][NextSink]_vars

\* The two database producers and the tables they write.
NextDb == UpsertHts \/ UpsertRuling

SpecDb == Init /\ [][NextDb]_vars

\* chunk_text and the hydration of hits alone.
NextText == ChunkTextCall \/ HydrateCall \/ RankReturn

SpecText == Init /\ [][NextText]_vars


\* ================================================================ claims
InRange(s) == {s[i] : i \in 1..Len(s)}

\* The list handed to _finalize_response and the response belong together.
Finalized == op \in {"finalize", "classify"}

\* The confidence the gate compares: a missing one counts as 0.0.
GateConfidence(c) == IF c.confidence = NoneConf THEN 0 ELSE c.confidence

Survives(c) == GateConfidence(c) # NaN /\ GateConfidence(c) >= minScore

\* C1: every output of _finalize_response has no candidate or only
\* candidates with a non-empty evidence list.
C1_EveryReturnedHasEvidence ==
    (Finalized /\ resp.status = "ok") =>
        \A i \in 1..Len(resp.codes) : resp.codes[i].evidence # <<>>

\* C2: every returned candidate has a confidence of at least MIN_SCORE, and
\* no input candidate whose confidence is missing or below MIN_SCORE is
\* among the returned ones.
C2_ThresholdGate ==
    (Finalized /\ resp.status = "ok") =>
        /\ \A i \in 1..Len(resp.codes) :
              /\ resp.codes[i].confidence \notin {NaN, NoneConf}
              /\ resp.codes[i].confidence >= minScore
        /\ \A i \in 1..Len(codesIn) :
              (\/ codesIn[i].confidence = NaN
               \/ codesIn[i].confidence = NoneConf /\ 0 < minScore
               \/ codesIn[i].confidence \notin {NaN, NoneConf} /\ codesIn[i].confidence < minScore)
                  => codesIn[i] \notin InRange(resp.codes)

C2_Witness ==
    /\ op = "finalize" /\ resp.status = "ok" /\ minScore = 50
    /\ Len(resp.codes) = 2 /\ Len(codesIn) = 3
    /\ \E i \in 1..3 : codesIn[i].confidence = 40

\* C3: with an empty input, no candidate that survives the threshold, or no
\* surviving candidate with evidence, the response is the abstain response:
\* no error, codes = [] and a non-empty disclaimer.
C3_Abstain ==
    (/\ Finalized
     /\ \/ codesIn = <<>>
        \/ \A i \in 1..Len(codesIn) : ~Survives(codesIn[i])
        \/ \A i \in 1..Len(codesIn) : Survives(codesIn[i]) => codesIn[i].evidence = <<>>)
        => (resp.status = "ok" /\ resp.codes = <<>> /\ resp.disclaimer # "")

C3_Witness ==
    /\ op = "finalize" /\ Len(codesIn) = 2
    /\ Survives(codesIn[1]) /\ codesIn[1].evidence = <<>>
    /\ ~Survives(codesIn[2]) /\ codesIn[2].evidence # <<>>
    /\ resp.status = "ok" /\ resp.codes = <<>>

\* C4: classify never propagates an exception, whatever the reasoning step
\* returned.
C4_ClassifyNeverRaises == op = "classify" => resp.status = "ok"

\* The first hit that resolves to the code, 0 when there is none.
FirstHitWithCode(code) ==
    IF \E i \in 1..Len(hits) : ExtractCodeFromHit(hits[i]) = code
    THEN CHOOSE i \in 1..Len(hits) :
            /\ ExtractCodeFromHit(hits[i]) = code
            /\ \A j \in 1..(i - 1) : ExtractCodeFromHit(hits[j]) # code
    ELSE 0

ResolvableCodes == {ExtractCodeFromHit(hits[i]) : i \in 1..Len(hits)} \ {None}

\* C5: on non-empty hits the fallback yields at most 2 candidates, one per
\* distinct resolvable code in hit order, each with the anchor of its hit as
\* its evidence.
C5_FallbackFromAnchors ==
    (fbCalled /\ hits # <<>>) =>
        /\ Len(fbOut) <= 2
        /\ Len(fbOut) = IF Cardinality(ResolvableCodes) < 2
                        THEN Cardinality(ResolvableCodes) ELSE 2
        /\ \A k \in 1..Len(fbOut) :
              /\ FirstHitWithCode(fbOut[k].code) # 0
              /\ fbOut[k].evidence =
                    <<[source |-> "HTS", id |-> hits[FirstHitWithCode(fbOut[k].code)].anchor]>>
        /\ \A k \in 1..(Len(fbOut) - 1) :
              FirstHitWithCode(fbOut[k].code) < FirstHitWithCode(fbOut[k + 1].code)

\* C6: a candidate synthesized by the fallback is never dropped by the
\* threshold of the gate, whatever MIN_SCORE is configured.
C6_FallbackSurvivesGate ==
    (op = "classify" /\ fbCalled /\ hits # <<>>) =>
        \A k \in 1..Len(fbOut) :
            (fbOut[k].evidence # <<>> /\ fbOut[k].evidence # StubEvidence) =>
                /\ resp.status = "ok"
                /\ \E j \in 1..Len(resp.codes) : resp.codes[j].code = fbOut[k].code

\* The calibration ran: the handler got past run_llm_classify.
Calibrated == op = "classify" /\ llm.status # "skipped"

\* The best fused score of a hit with the candidate's code, 0 without one.
BestSupport(c) ==
    LET S == {hits[j].score : j \in {n \in 1..Len(hits) :
                  Strip(OrElse(hits[n].code, <<>>)) = Strip(OrElse(c.code, <<>>))
                  /\ Strip(OrElse(c.code, <<>>)) # <<>>}}
    IN  IF S = {} THEN 0 ELSE CHOOSE s \in S : \A t \in S : s >= t

\* C7: the candidates are in descending order of support, a supported
\* candidate at rank 0 ends at 0.55 or more, one at rank 1 at 0.45 or more.
C7_RankFloors ==
    Calibrated =>
        /\ \A i \in 1..(Len(codesIn) - 1) :
              BestSupport(codesIn[i]) >= BestSupport(codesIn[i + 1])
        /\ (Len(codesIn) >= 1 /\ BestSupport(codesIn[1]) > 0)
              => (codesIn[1].confidence # NaN /\ codesIn[1].confidence >= 55)
        /\ (Len(codesIn) >= 2 /\ BestSupport(codesIn[2]) > 0)
              => (codesIn[2].confidence # NaN /\ codesIn[2].confidence >= 45)

\* C8: the calibration changes nothing but confidences; a confidence is
\* left as it is or raised, one within [0,1] stays within [0,1], and a
\* candidate without support or at rank 2 or later keeps its confidence.
C8_MonotonicFloor ==
    Calibrated =>
        /\ Len(codesIn) = Len(preCal)
        /\ \A i \in 1..Len(preCal) :
              LET b == preCal[i].confidence
                  a == codesIn[i].confidence
              IN  /\ codesIn[i] = [preCal[i] EXCEPT !.confidence = a]
                  /\ a = b \/ (a # NaN /\ b # NaN /\ a > b)
                  /\ (b # NaN /\ 0 <= b /\ b <= 100) => (a # NaN /\ 0 <= a /\ a <= 100)
                  /\ (BestSupport(preCal[i]) = 0 \/ i >= 3) => a = b

C8_Witness ==
    /\ Calibrated /\ Len(codesIn) = 3
    /\ codesIn[1].confidence = 80 /\ preCal[1].confidence = 80
    /\ codesIn[2].confidence = 45 /\ preCal[2].confidence = 10
    /\ BestSupport(preCal[3]) > 0 /\ codesIn[3].confidence = 10

\* The negation of the ensure condition of line 521, and of that of line 523.
LexicalReady == BM25_MODEL.built /\ CHUNK_ROWS # <<>>
VectorReady == EMB_MATRIX.built

\* C9: a cache that is READY never returns to UNBUILT, whatever is called
\* and however the corpus changes.
C9_ReadyNeverUnbuilt ==
    [][(LexicalReady => LexicalReady') /\ (VectorReady => VectorReady')]_vars

\* C10: the rows a query returned hits from (read at line 542 and again at
\* line 552) and the BM25 model it scored them with belong to one build:
\* the model was built over exactly these rows.
C10_QueryReadsOneBuild ==
    \A p \in Queriers :
        (pc[p] = "r_done" /\ result[p] = "hits" /\ qBm25[p].built) =>
            (qBm25[p].docs = qRows[p] /\ qRaw[p] = qRows[p])

\* No worker is inside a call.
Quiescent == \A p \in Workers : pc[p] = "idle"

\* C11: between calls, with both caches READY, the embedding matrix has one
\* row per entry of _CHUNK_ROWS and row i is the embedding of chunk i.
C11_IndexAlignment ==
    (Quiescent /\ LexicalReady /\ VectorReady) => EMB_MATRIX.rows = CHUNK_ROWS

\* n keeps the order of s: a larger score never gets a smaller value.
KeepsOrder(s, n) ==
    \A i \in 1..Len(s), j \in 1..Len(s) : s[i] <= s[j] => n[i] <= n[j]

\* The non-degenerate result: values in [0, 1], a 1.0, a 0.0, order kept.
Spread(s, n) ==
    /\ \A i \in 1..Len(n) : 0 <= n[i] /\ n[i] <= One
    /\ One \in Range(n)
    /\ 0 \in Range(n)
    /\ KeepsOrder(s, n)

AllZero(n) == \A i \in 1..Len(n) : n[i] = 0

\* C16 as stated: _normalize returns one entry per input index; scores that
\* are not all equal map into [0, 1] with a 1.0 and a 0.0 and their order
\* kept; scores that are all equal map to 0.0.
C16_NormalizeAllEqual ==
    rop = "normalize" =>
        /\ Len(rres.norm) = Len(rin.scores)
        /\ rin.scores # <<>> =>
              IF Cardinality(Range(rin.scores)) = 1
              THEN AllZero(rres.norm)
              ELSE Spread(rin.scores, rres.norm)

\* C16: _normalize returns one entry per input index; when the largest and
\* the smallest score are within math.isclose of each other (equal scores
\* included) every value is 0.0, and otherwise the values are in [0, 1]
\* with a 1.0 and a 0.0 and the order kept.
C16_NormalizeIsClose ==
    rop = "normalize" =>
        /\ Len(rres.norm) = Len(rin.scores)
        /\ rin.scores # <<>> =>
              IF IsClose(MaxOf(Range(rin.scores)), MinOf(Range(rin.scores)))
              THEN AllZero(rres.norm)
              ELSE Spread(rin.scores, rres.norm)

\* Scores that differ, yet are close: all normalized to 0.0.
C16_Witness ==
    /\ rop = "normalize"
    /\ Cardinality(Range(rin.scores)) > 1
    /\ AllZero(rres.norm)

\* C17: for fixed scores and clamped alphas a1 <= a2, the fused score does
\* not decrease from a1 to a2 when the vector score is at least the lexical
\* score, does not increase when it is at most the lexical score, and lies
\* in [0, 1].
C17_FusionMonotone ==
    (rop = "fuse" /\ FGe(rres.a2, rres.a1)) =>
        /\ rin.v >= rin.b => rres.fused1 <= rres.fused2
        /\ rin.v <= rin.b => rres.fused1 >= rres.fused2
        /\ 0 <= rres.fused1 /\ rres.fused1 <= One
        /\ 0 <= rres.fused2 /\ rres.fused2 <= One

\* The order the raw BM25 scores alone produce: score descending, then index.
Bm25Order(rows) == Idxs(SortFused(Bm25Entries([i \in 1..Len(rows) |-> rows[i].bm25])))

\* C12: when the embedding provider fails during retrieve_with_fusion on a
\* non-empty corpus, the call does not raise and returns the results in the
\* order of the BM25 scores alone, for every alpha and stored dimension.
C12_DegradeToBm25 ==
    (/\ rop = "retrieve_with_fusion"
     /\ rin.session
     /\ RankedRows(rin) # <<>>
     /\ rin.embed = EmbedFail) =>
        /\ rres.status = "ok"
        /\ rres.out = Take(Bm25Order(RankedRows(rin)), Len(rres.out))

\* The corpus query of a call fails, or the table has no rows.
NoCorpus(in) == ~in.loadOk \/ in.table = <<>>

Ranked == rop \in {"retrieve_with_fusion", "hybrid_search_rulings"} /\ rres.status = "ok" /\ rres.out # <<>>
Scored == IF rop = "hybrid_search_rulings" THEN HybridScored(rin) ELSE RetrieveScored(rin)

\* x and y tie on the fused and on the lexical score.
FullTie(x, y) == x.fused = y.fused /\ x.b = y.b

\* x ranks above y on the scores alone.
Above(x, y) == x.fused > y.fused \/ (x.fused = y.fused /\ x.b > y.b)

\* The results are in the order Before, and ahead of every candidate that
\* was cut off.
OrderedBy(Before(_, _)) ==
    /\ \A p \in 1..Len(rres.out), q \in 1..Len(rres.out) :
            p < q => Before(Scored[rres.out[p]], Scored[rres.out[q]])
    /\ \A p \in 1..Len(rres.out), i \in 1..Len(Scored) :
            i \notin Range(rres.out) => Before(Scored[rres.out[p]], Scored[i])

IndexDescending(x, y) == Above(x, y) \/ (FullTie(x, y) /\ x.key > y.key)
IndexAscending(x, y) == Above(x, y) \/ (FullTie(x, y) /\ x.key < y.key)

\* C14 as stated: the results of retrieve_with_fusion and of
\* hybrid_search_rulings are ordered by fused score descending, then lexical
\* score descending, then index descending.
C14_OrderIndexDescending == Ranked => OrderedBy(IndexDescending)

\* C14: the results of retrieve_with_fusion and of hybrid_search_rulings are
\* ordered by fused score descending, then normalized lexical score
\* descending, then index (chunk id for the rulings) ascending: one fixed
\* total order.
C14_OrderIndexAscending == Ranked => OrderedBy(IndexAscending)

\* Two results that tie on both scores, the lower index first.
C14_Witness ==
    /\ Ranked
    /\ \E p \in 1..Len(rres.out), q \in 1..Len(rres.out) :
        /\ p < q
        /\ FullTie(Scored[rres.out[p]], Scored[rres.out[q]])
        /\ Scored[rres.out[p]].key < Scored[rres.out[q]].key

\* C15: whatever top_k is (None, non-numeric, zero, negative, above the
\* cap), retrieve_with_fusion works with a K in [1, 50], an integer top_k in
\* that range being K itself, and on N chunks returns exactly min(K, N)
\* results: the first min(K, N) entries of the fully sorted candidates.
C15_TopKClampedPrefix ==
    (rop = "retrieve_with_fusion" /\ rin.session /\ rres.status = "ok") =>
        LET K == SafeTopK(rin.top_k)
            N == Len(RankedRows(rin))
            sorted == Idxs(SortFused(RetrieveScored(rin)))
        IN  /\ 1 <= K /\ K <= MaxCap
            /\ (rin.top_k # None /\ rin.top_k[1] = "int" /\ rin.top_k[2] \in 1..MaxCap)
                    => K = rin.top_k[2]
            /\ Len(rres.out) = MinOf({K, N})
            /\ Len(sorted) = N
            /\ rres.out = SubSeq(sorted, 1, MinOf({K, N}))

\* Three chunks and top_k = 2: two results; the third candidate is cut off.
C15_Witness ==
    /\ rop = "retrieve_with_fusion"
    /\ rin.top_k = <<"int", 2>>
    /\ Len(RankedRows(rin)) = 3
    /\ rres.status = "ok" /\ Len(rres.out) = 2

\* Every row whose stored embedding is absent or not of dimension dim is
\* the zero vector of dimension dim in vecs, and no row is missing.
MalformedZeroed(rows, vecs, dim) ==
    /\ Len(vecs) = Len(rows)
    /\ \A i \in 1..Len(rows) :
            /\ vecs[i].dim = dim
            /\ rows[i].emb.dim # dim => vecs[i] = Zeros(dim)

\* C18: build_faiss and hybrid_search_rulings keep one row per chunk and
\* turn a stored embedding that is absent or of the wrong dimension into
\* the zero vector of the index dimension, without raising.
C18_MalformedBecomesZero ==
    /\ (rop = "build_faiss" /\ rres.rows # <<>>) =>
            /\ rres.status = "ok"
            /\ MalformedZeroed(rres.rows, rres.matrix, rres.matrix[1].dim)
    /\ (rop = "hybrid_search_rulings" /\ rin.loadOk /\ rin.table # <<>>) =>
            /\ rres.status = "ok"
            /\ LET qvec == EmbedQuery(rin.embed)
               IN  MalformedZeroed(rin.table, HybridVecs(rin.table, qvec),
                                   IF qvec.dim > 0 THEN qvec.dim ELSE EMBED_DIM_DEFAULT)

\* C19: with overlap >= window the chunker rejects its arguments with a
\* ConfigurationError: it yields no chunk and does not finish normally.
C19_OverlapRejected ==
    (cop # "idle" /\ cargs.overlap >= cargs.window) => (cout = <<>> /\ cop # "done")

\* The later chunks without their first overlap characters, concatenated.
RECURSIVE Tails(_, _, _)
Tails(chunks, k, overlap) ==
    IF k > Len(chunks) THEN <<>>
    ELSE Slice(chunks[k].text, overlap, Len(chunks[k].text)) \o Tails(chunks, k + 1, overlap)

Rebuilt(chunks, overlap) ==
    IF chunks = <<>> THEN <<>> ELSE chunks[1].text \o Tails(chunks, 2, overlap)

\* C20: for 0 <= overlap < window the chunks yielded so far have the section
\* indices 0, 1, 2, ..., strictly increasing offsets inside the text (so
\* there are finitely many), and window characters each, the last one of a
\* finished run excepted; the first chunk followed by every later chunk
\* without its first overlap characters is the text read so far, and the
\* whole text when the run has finished.
C20_WindowsRebuildText ==
    (cop # "idle" /\ cargs.overlap < cargs.window) =>
        /\ \A k \in 1..Len(cout) :
            /\ cout[k].section = k - 1
            /\ cout[k].offset < Len(cargs.text)
            /\ k > 1 => cout[k].offset > cout[k - 1].offset
            /\ (k < Len(cout) \/ cop = "running") => Len(cout[k].text) = cargs.window
        /\ Len(cout) <= Len(cargs.text)
        /\ Len(cout) < MaxYield
        /\ Rebuilt(cout, cargs.overlap) = SubSeq(cargs.text, 1, Len(Rebuilt(cout, cargs.overlap)))
        /\ cop = "done" => Rebuilt(cout, cargs.overlap) = cargs.text

\* A finished run of three overlapping chunks, the last one short.
C20_Witness ==
    /\ cop = "done"
    /\ cargs.overlap > 0 /\ cargs.overlap < cargs.window
    /\ Len(cout) = 3
    /\ Len(cout[3].text) < cargs.window
    /\ Rebuilt(cout, cargs.overlap) = cargs.text

\* The identifiers and the text spans of a run's output.
IdsAndSpans(out) == [k \in 1..Len(out) |-> <<out[k].id, out[k].text>>]

C30_ChunkIdsUnique ==
    /\ \A d \in DocIds : \A j \in 1..Len(chunkFiles[d]), k \in 1..Len(chunkFiles[d]) :
            chunkFiles[d][j].chunk_id = chunkFiles[d][k].chunk_id => j = k
    /\ lastRun.ran => \A d \in DocIds :
            SubSeq(chunkFiles[d], 1, Len(lastRun.chunksBefore[d])) = lastRun.chunksBefore[d]

\* A document read from two files with different texts in one run, after a
\* run over another text: its first chunk keeps the text of the first run.
C30_Witness ==
    /\ lastRun.ran /\ ~lastRun.repeat
    /\ Len(srcFiles) = 2 /\ srcFiles[1].doc = srcFiles[2].doc /\ srcFiles[1].text # srcFiles[2].text
    /\ Len(lastRun.chunksBefore[srcFiles[1].doc]) > 0
    /\ Len(chunkFiles[srcFiles[1].doc]) > Len(lastRun.chunksBefore[srcFiles[1].doc])
    /\ chunkFiles[srcFiles[1].doc][1].text # Slice(srcFiles[1].text, 0, HtsWindow)

\* The table holds a document with the source type and external id of key.
Known(key, docs) ==
    \E k \in 1..Len(docs) : docs[k].source_type = key[1] /\ docs[k].external_id = key[2]

\* C23: when upsert_hts or upsert_ruling ingests a document whose source
\* type and external id the table holds, the call flushes no row whose
\* (source_type, external_id, version) is in the table, and does not raise.
C23_ReingestDetected ==
    dbres.fn # "none" =>
        \A k \in 1..Len(dbres.tried) :
            Known(dbres.tried[k], dbres.docsBefore) =>
                /\ dbres.tried[k] \notin Keys(dbres.docsBefore)
                /\ dbres.status = "ok"

\* C24: an upsert_hts call with the file and the settings of the call
\* before it makes the chunk_ids that call made and inserts no chunk row.
C24_SameChunkIdsNoInsert ==
    (dbres.fn = "upsert_hts" /\ dbres.repeat) =>
        /\ dbres.ids = dbres.prevIds
        /\ dbChunks = dbres.chunksBefore

\* C25: no chunk chunk_text returns has empty text.
C25_NoEmptyChunk ==
    rop = "chunk_text" => \A k \in 1..Len(rres.chunks) : rres.chunks[k].text # <<>>

\* C26: a word whose token estimate exceeds max_tokens is the first and
\* the only word of every chunk it is in, and the result is not empty.
C26_OversizedTokenAlone ==
    rop = "chunk_text" =>
        /\ rres.chunks # <<>>
        /\ \A k \in 1..Len(rres.chunks) : \A j \in 1..Len(rres.chunks[k].words) :
                Tok(rres.chunks[k].words[j]) > rin.max_tokens => (j = 1 /\ Len(rres.chunks[k].words) = 1)

\* One item per hit, in the order of the hits.
OnePerHit == Len(rres.out) = Len(rin.hits) /\ \A k \in 1..Len(rin.hits) : rres.out[k].score = rin.hits[k].score

\* The hit's chunk is in the chunks table and hydration did not fail.
Found(h) == ~rin.fails /\ h.chunk_id # <<>> /\ RowsWith(rin.db, h.chunk_id) # {}

\* C27 as stated: every anchor is source_id#idx of the chunk of its hit,
\* and there is one item per hit in the order of the hits.
C27_AnchorsSourceIdx ==
    rop = "hydrate" =>
        /\ OnePerHit
        /\ \A k \in 1..Len(rres.out) : \E r \in HydRows :
                r.chunk_id = rin.hits[k].chunk_id /\ rres.out[k].anchor = Str(r.source_id) \o <<"#">> \o Str(r.idx)

\* C27: there is one item per hit in the order of the hits; the anchor is
\* source_id#idx of the chunk's row when hydration finds the row, and the
\* chunk_id of the hit when the row is gone or hydration failed.
C27_AnchorsRowOrChunkId ==
    rop = "hydrate" =>
        /\ OnePerHit
        /\ \A k \in 1..Len(rres.out) :
                IF Found(rin.hits[k])
                THEN \E r \in rin.db :
                        r.chunk_id = rin.hits[k].chunk_id
                        /\ rres.out[k].anchor = Str(r.source_id) \o <<"#">> \o Str(r.idx)
                ELSE rres.out[k].anchor = rin.hits[k].chunk_id

\* Two hits, the first with its row (whose primary key is not its idx), the
\* second without.
C27_Witness ==
    /\ rop = "hydrate" /\ Len(rin.hits) = 2
    /\ Found(rin.hits[1]) /\ ~Found(rin.hits[2]) /\ ~rin.fails
    /\ \E r \in rin.db : r.chunk_id = rin.hits[1].chunk_id /\ r.id # r.idx
    /\ rres.out[1].anchor = <<"1", "#", "1">>

\* The text the snippet of the k-th hit is taken from.
SnippetSource(k) ==
    LET h == rin.hits[k]
    IN  IF Found(h)
        THEN LET r == CHOOSE x \in RowsWith(rin.db, h.chunk_id) : TRUE
             IN  IF r.text # <<>> THEN r.text ELSE h.text
        ELSE h.text

\* The one character U+2026.
Ellipsis == "<U+2026>"

\* s is text cut before one of its spaces, with the ellipsis appended.
CutAtWord(s, text) ==
    /\ s # <<>> /\ s[Len(s)] = Ellipsis
    /\ \E n \in 0..(Len(text) - 1) :
            /\ text[n + 1] = SP
            /\ SubSeq(s, 1, Len(s) - 1) = SubSeq(text, 1, n)

\* C28: a snippet is not longer than the bound; of a text within the bound
\* it is the text, and of a longer text it is the text cut before a space
\* with an ellipsis at its end.
C28_SnippetWordBoundary ==
    rop = "hydrate" =>
        \A k \in 1..Len(rres.out) :
            /\ Len(rres.out[k].snippet) <= SnippetLen
            /\ IF Len(SnippetSource(k)) <= SnippetLen
               THEN rres.out[k].snippet = SnippetSource(k)
               ELSE CutAtWord(rres.out[k].snippet, SnippetSource(k))

\* The four caches of the retriever.
Caches == <<CHUNK_ROWS, TOKENIZED_CHUNKS, BM25_MODEL, EMB_MATRIX>>

\* Where a worker stands inside build_bm25 or build_faiss.
BuildPcs == {"b_load", "b_tok", "b_model", "f_load", "f_embs", "f_store"}

\* C29: no step of retrieve_with_fusion outside the builds changes the four
\* caches; its check of a READY lexical cache does not start build_bm25 and
\* its check of a READY vector cache does not start build_faiss, whatever
\* the chunks table holds by then; and every step that changes a cache is
\* a step of build_bm25 or build_faiss.
C29_EnsureBuiltNoOp ==
    [][/\ \A p \in Queriers :
            (pc'[p] # pc[p] /\ pc[p] \notin BuildPcs) =>
                /\ Caches' = Caches
                /\ (pc[p] = "idle" /\ LexicalReady) => pc'[p] # "b_load"
                /\ (pc[p] = "r_ensure_emb" /\ VectorReady) => pc'[p] # "f_load"
       /\ Caches' # Caches =>
            \E p \in Workers :
                /\ pc'[p] # pc[p]
                /\ pc[p] \in BuildPcs \/ (pc[p] = "idle" /\ p \in Reindexers)]_vars

\* A query has passed both checks without a build, over caches that are
\* READY and older than the chunks table.
C29_Witness ==
    /\ pc["query"] = "r_rows" /\ call["query"] = "retrieve"
    /\ pc["reindex"] = "idle"
    /\ LexicalReady /\ VectorReady
    /\ CHUNK_ROWS # SortedSeq(corpus)
    /\ EMB_MATRIX.rows = CHUNK_ROWS /\ BM25_MODEL.docs = CHUNK_ROWS

====
